---- MODULE Spec2Model ----
(***************************************************************************)
(* Layered window-manager state engine: TilingWM, FloatingWM (wraps        *)
(* TilingWM), MinimiseWM (wraps FloatingWM), FullWM (wraps MinimiseWM),    *)
(* GapsWM (wraps TilingWM) and MultiWorkspaceWM (MAX_WORKSPACE_INDEX + 1   *)
(* FullWM instances).  Every method is an operator from the receiver       *)
(* record (and its arguments) to a record [wm, res]: the receiver after    *)
(* the call and the outcome, "Ok", one of the WMError values, or "panic"   *)
(* when the method aborts on an unwrap of None / Err.                      *)
(***************************************************************************)
EXTENDS Integers, Sequences, FiniteSets, TLC

VARIABLES kind, wm, alive

vars == <<kind, wm, alive>>

(***************************************************************************)
(* Bounds of the model.                                                    *)
(***************************************************************************)
\* window ids are 0 .. MaxWindow
MaxWindow == 2
\* at most this many windows are managed at a time by a FullWM
MaxFullWindows == 2
\* window ids handed to a MultiWorkspaceWM are 0 .. MaxMultiWindow
MaxMultiWindow == 1
\* the gap sizes handed to set_gap are 0 .. MaxGap
MaxGap == 1

Window == 0 .. MaxWindow

(***************************************************************************)
(* Option<T>: None is the empty sequence, Some(x) the one-element one.     *)
(***************************************************************************)
None == << >>
Some(x) == << x >>
is_some(o) == o # None
is_none(o) == o = None
unwrap(o) == o[1]

(***************************************************************************)
(* Results.                                                                *)
(***************************************************************************)
Ok(self) == [wm |-> self, res |-> "Ok"]
Err(self, e) == [wm |-> self, res |-> e]
Panic(self) == [wm |-> self, res |-> "panic"]

\* Result::unwrap on the result of a call: an Err aborts
unwrap_result(r) == IF r.res = "Ok" THEN r ELSE Panic(r.wm)

\* the statements K that follow a call: they run on the receiver as the call
\* left it, unless the call returned an Err that try! hands on, or aborted
and_then(r, K(_)) == IF r.res # "Ok" THEN r ELSE K(r.wm)

UnknownWindow == "UnknownWindow"
AlreadyManagedWindow == "AlreadyManagedWindow"
WorkspaceIndexNotValid == "WorkspaceIndexNotValid"

(***************************************************************************)
(* Vec / VecDeque helpers (positions are 1-based here, 0 = not found).     *)
(***************************************************************************)
contains(seq, x) == \E i \in 1 .. Len(seq) : seq[i] = x

position(seq, x) ==
    IF contains(seq, x)
    THEN CHOOSE i \in 1 .. Len(seq) : seq[i] = x /\ \A j \in 1 .. (i - 1) : seq[j] # x
    ELSE 0

\* VecDeque::remove(i): out of range removes nothing
remove(seq, i) ==
    IF i \in 1 .. Len(seq)
    THEN [k \in 1 .. (Len(seq) - 1) |-> IF k < i THEN seq[k] ELSE seq[k + 1]]
    ELSE seq

swap(seq, i, j) == [seq EXCEPT ![i] = seq[j], ![j] = seq[i]]

push_back(seq, x) == Append(seq, x)
push_front(seq, x) == << x >> \o seq
back(seq) == IF Len(seq) = 0 THEN None ELSE Some(seq[Len(seq)])
front(seq) == IF Len(seq) = 0 THEN None ELSE Some(seq[1])

\* HashMap::remove / insert
map_remove(m, k) == [x \in (DOMAIN m) \ {k} |-> m[x]]
map_insert(m, k, v) == [x \in (DOMAIN m) \cup {k} |-> IF x = k THEN v ELSE m[x]]
EmptyMap == [x \in {} |-> 0]

(***************************************************************************)
(* Types of the API.                                                       *)
(***************************************************************************)
Float == "Float"
Tile == "Tile"
Prev == "Prev"
Next == "Next"
PrevOrNext == {Prev, Next}
opposite(dir) == IF dir = Prev THEN Next ELSE Prev

Geometry(x, y, width, height) == [x |-> x, y |-> y, width |-> width, height |-> height]
Screen(width, height) == [width |-> width, height |-> height]
to_geometry(screen) == Geometry(0, 0, screen.width, screen.height)

WindowWithInfo(window, geometry, float_or_tile, fullscreen) ==
    [window |-> window, geometry |-> geometry,
     float_or_tile |-> float_or_tile, fullscreen |-> fullscreen]

WindowLayout_new == [focused_window |-> None, windows |-> << >>]

\* the screens and geometries the backend hands in
SCREEN == Screen(800, 600)
RESIZED == Screen(1023, 767)
SOME_GEOM == Geometry(10, 10, 100, 100)
OTHER_GEOM == Geometry(20, 30, 201, 301)

(***************************************************************************)
(* TilingWM (b_tiling_wm.rs).  self = [windows, windows_info, tiles,       *)
(* screen, is_focus]: windows is the focus order (last = focused), tiles   *)
(* the tile order (first = master).                                        *)
(***************************************************************************)
TilingWM_new(screen) ==
    [windows |-> << >>, windows_info |-> EmptyMap, tiles |-> << >>,
     screen |-> screen, is_focus |-> FALSE]

TilingWM_get_windows(self) == self.windows

TilingWM_is_managed(self, window) == contains(TilingWM_get_windows(self), window)

TilingWM_get_focused_window(self) ==
    IF self.is_focus THEN back(self.windows) ELSE None

TilingWM_add_window(self, window_with_info) ==
    IF ~TilingWM_is_managed(self, window_with_info.window)
    THEN Ok([self EXCEPT
               !.windows = push_back(@, window_with_info.window),
               !.windows_info = map_insert(@, window_with_info.window, window_with_info),
               !.tiles = IF window_with_info.float_or_tile = Tile
                         THEN push_back(@, window_with_info.window) ELSE @,
               !.is_focus = TRUE])
    ELSE Err(self, AlreadyManagedWindow)

\* variant: the last tile takes the place of the removed tile (swap_remove)
TilingWM_remove_window_swapping(self, window) ==
    LET i == position(self.windows, window) IN
    IF i = 0 THEN Err(self, UnknownWindow)
    ELSE IF window \notin DOMAIN self.windows_info THEN Panic(self)
    ELSE IF self.windows_info[window].float_or_tile = Float
    THEN Ok([self EXCEPT !.windows = remove(@, i),
                         !.windows_info = map_remove(@, window)])
    ELSE LET s1 == [self EXCEPT !.windows = remove(@, i),
                                !.windows_info = map_remove(@, window)]
         IN IF Len(s1.windows) = 0
            THEN Ok([s1 EXCEPT !.tiles = remove(@, 1), !.is_focus = FALSE])
            ELSE LET j == position(s1.tiles, window) IN
                 IF j = 0 THEN Panic(s1)
                 ELSE Ok([s1 EXCEPT !.tiles = remove(swap(@, j, Len(@)), Len(@))])

TilingWM_remove_window(self, window) ==
    LET i == position(self.windows, window) IN
    IF i = 0 THEN Err(self, UnknownWindow)
    ELSE IF window \notin DOMAIN self.windows_info THEN Panic(self)
    ELSE IF self.windows_info[window].float_or_tile = Float
    THEN Ok([self EXCEPT !.windows = remove(@, i),
                         !.windows_info = map_remove(@, window)])
    ELSE LET s1 == [self EXCEPT !.windows = remove(@, i),
                                !.windows_info = map_remove(@, window)]
         IN IF Len(s1.windows) = 0
            THEN Ok([s1 EXCEPT !.tiles = remove(@, 1), !.is_focus = FALSE])
            ELSE LET j == position(s1.tiles, window) IN
                 IF j = 0 THEN Panic(s1)
                 ELSE Ok([s1 EXCEPT !.tiles = remove(@, j)])

\* variant: the side tiles share the height among all the tiles
TilingWM_get_window_layout_even(self) ==
    LET fullscreen_geometry == to_geometry(self.screen)
        len == Len(self.tiles)
        focused == IF self.is_focus THEN back(self.windows) ELSE None
    IN IF Len(self.windows) = 0 THEN WindowLayout_new
       ELSE IF len = 0 THEN [focused_window |-> focused, windows |-> << >>]
       ELSE IF len = 1
       THEN [focused_window |-> focused,
             windows |-> << << self.tiles[len], fullscreen_geometry >> >>]
       ELSE LET width == fullscreen_geometry.width \div 2
                height == fullscreen_geometry.height \div len
            IN [focused_window |-> focused,
                windows |->
                  [k \in 1 .. len |->
                     IF k = 1
                     THEN << self.tiles[1],
                             Geometry(0, 0, width, fullscreen_geometry.height) >>
                     ELSE << self.tiles[k],
                             Geometry(width, (k - 2) * height, width, height) >>]]

TilingWM_get_window_layout(self) ==
    LET fullscreen_geometry == to_geometry(self.screen)
        len == Len(self.tiles)
        focused == IF self.is_focus THEN back(self.windows) ELSE None
    IN IF Len(self.windows) = 0 THEN WindowLayout_new
       ELSE IF len = 0 THEN [focused_window |-> focused, windows |-> << >>]
       ELSE IF len = 1
       THEN [focused_window |-> focused,
             windows |-> << << self.tiles[len], fullscreen_geometry >> >>]
       ELSE LET width == fullscreen_geometry.width \div 2
                height == fullscreen_geometry.height \div (len - 1)
            IN [focused_window |-> focused,
                windows |->
                  [k \in 1 .. len |->
                     IF k = 1
                     THEN << self.tiles[1],
                             Geometry(0, 0, width, fullscreen_geometry.height) >>
                     ELSE << self.tiles[k],
                             Geometry(width, (0 - height) + (k - 1) * height,
                                      width, height) >>]]

TilingWM_focus_window(self, window) ==
    IF is_none(window) THEN Ok([self EXCEPT !.is_focus = FALSE])
    ELSE LET i == position(self.windows, unwrap(window)) IN
         IF i = 0 THEN Err(self, UnknownWindow)
         ELSE Ok([self EXCEPT !.is_focus = TRUE,
                              !.windows = push_back(remove(@, i), self.windows[i])])

\* variant: with three or more windows both directions rotate like Next
TilingWM_cycle_focus_forward(self, dir) ==
    LET len == Len(self.windows) IN
    IF len = 0 THEN Ok(self)
    ELSE IF len = 1 THEN Ok([self EXCEPT !.is_focus = TRUE])
    ELSE IF len = 2 THEN Ok([self EXCEPT !.windows = swap(@, 1, 2), !.is_focus = TRUE])
    ELSE Ok([self EXCEPT !.windows = push_back(Tail(@), Head(@)),
                         !.is_focus = TRUE])

TilingWM_cycle_focus(self, dir) ==
    LET len == Len(self.windows) IN
    IF len = 0 THEN Ok(self)
    ELSE IF len = 1 THEN Ok([self EXCEPT !.is_focus = TRUE])
    ELSE IF len = 2 THEN Ok([self EXCEPT !.windows = swap(@, 1, 2), !.is_focus = TRUE])
    ELSE IF dir = Prev
    THEN Ok([self EXCEPT !.windows = push_front(SubSeq(@, 1, len - 1), @[len]),
                         !.is_focus = TRUE])
    ELSE Ok([self EXCEPT !.windows = push_back(Tail(@), Head(@)),
                         !.is_focus = TRUE])

\* the value is [info, res]
TilingWM_get_window_info(self, window) ==
    IF position(self.windows, window) = 0
    THEN [info |-> None, res |-> UnknownWindow]
    ELSE LET layout == TilingWM_get_window_layout(self).windows
             i == IF \E k \in 1 .. Len(layout) : layout[k][1] = window
                  THEN CHOOSE k \in 1 .. Len(layout) : layout[k][1] = window
                  ELSE 0
         IN IF i = 0 THEN [info |-> None, res |-> "panic"]
            ELSE [info |-> Some(WindowWithInfo(window, layout[i][2], Tile, FALSE)),
                  res |-> "Ok"]

TilingWM_resize_screen(self, screen) == Ok([self EXCEPT !.screen = screen])

TilingWM_get_master_window(self) == front(self.tiles)

TilingWM_swap_with_master(self, window) ==
    IF ~TilingWM_is_managed(self, window) THEN Err(self, UnknownWindow)
    ELSE LET i == position(self.tiles, window) IN
         IF i = 0 THEN Ok(self)
         ELSE unwrap_result(TilingWM_focus_window([self EXCEPT !.tiles = swap(@, 1, i)],
                                                  Some(window)))

\* variant: Prev on the master tile swaps the first two tiles
TilingWM_swap_windows_no_wrap(self, dir) ==
    IF ~self.is_focus THEN Ok(self)
    ELSE LET len == Len(self.tiles) IN
         IF len = 2 THEN Ok([self EXCEPT !.tiles = swap(@, 1, 2)])
         ELSE IF is_none(back(self.windows)) THEN Panic(self)
         ELSE LET i == position(self.tiles, unwrap(back(self.windows))) - 1 IN
              IF i < 0 THEN Panic(self)
              ELSE IF dir = Prev
              THEN IF len < 2 THEN Ok(self)
                   ELSE IF i = 0 THEN Ok([self EXCEPT !.tiles = swap(@, 1, 2)])
                   ELSE Ok([self EXCEPT !.tiles = swap(@, i + 1, i)])
              ELSE Ok([self EXCEPT !.tiles = swap(@, i + 1, ((i + 1) % len) + 1)])

TilingWM_swap_windows(self, dir) ==
    IF ~self.is_focus THEN Ok(self)
    ELSE LET len == Len(self.tiles) IN
         IF len = 2 THEN Ok([self EXCEPT !.tiles = swap(@, 1, 2)])
         ELSE IF is_none(back(self.windows)) THEN Panic(self)
         ELSE LET i == position(self.tiles, unwrap(back(self.windows))) - 1 IN
              IF i < 0 THEN Panic(self)
              ELSE IF dir = Prev
              THEN IF i = 0 THEN Ok([self EXCEPT !.tiles = swap(@, i + 1, len)])
                   ELSE IF i = 1 THEN Ok([self EXCEPT !.tiles = swap(@, 1, 2)])
                   ELSE Ok([self EXCEPT !.tiles = swap(@, i + 1, i)])
              ELSE Ok([self EXCEPT !.tiles = swap(@, i + 1, ((i + 1) % len) + 1)])

(***************************************************************************)
(* FloatingWM (c_floating_windows.rs).  self = [tiling_wm, floats].        *)
(***************************************************************************)
FloatingWM_new(screen) == [tiling_wm |-> TilingWM_new(screen), floats |-> EmptyMap]

\* a call of the wrapped TilingWM
FloatingWM_inner(self, r) == [wm |-> [self EXCEPT !.tiling_wm = r.wm], res |-> r.res]

FloatingWM_get_windows(self) == TilingWM_get_windows(self.tiling_wm)

FloatingWM_is_managed(self, window) == contains(FloatingWM_get_windows(self), window)

FloatingWM_get_focused_window(self) == TilingWM_get_focused_window(self.tiling_wm)

\* the keys of the HashMap, as a set (their order is unspecified)
FloatingWM_get_floating_windows(self) == DOMAIN self.floats

FloatingWM_is_floating(self, window) == window \in FloatingWM_get_floating_windows(self)

FloatingWM_add_window(self, window_with_info) ==
    and_then(FloatingWM_inner(self, TilingWM_add_window(self.tiling_wm, window_with_info)),
             LAMBDA s1 :
               Ok([s1 EXCEPT
                     !.floats = IF window_with_info.float_or_tile = Float
                                THEN map_insert(@, window_with_info.window,
                                                window_with_info.geometry)
                                ELSE @]))

FloatingWM_remove_window(self, window) ==
    and_then(FloatingWM_inner(self, TilingWM_remove_window(self.tiling_wm, window)),
             LAMBDA s1 :
               IF window \in DOMAIN s1.floats
               THEN IF Len(s1.tiling_wm.windows) = 0
                    THEN Ok([s1 EXCEPT !.floats = map_remove(@, 0),
                                       !.tiling_wm.is_focus = FALSE])
                    ELSE Ok([s1 EXCEPT !.floats = map_remove(@, window)])
               ELSE Ok(s1))

\* the floating windows of the focus order that have a geometry, in that order
FloatingWM_float_entries(self) ==
    LET ws == self.tiling_wm.windows
        F[n \in 0 .. Len(ws)] ==
          IF n = 0 THEN << >>
          ELSE IF FloatingWM_is_floating(self, ws[n])
               THEN Append(F[n - 1], << ws[n], self.floats[ws[n]] >>)
               ELSE F[n - 1]
    IN F[Len(ws)]

FloatingWM_get_window_layout(self) ==
    LET layout == TilingWM_get_window_layout(self.tiling_wm) IN
    [layout EXCEPT !.windows = @ \o FloatingWM_float_entries(self)]

FloatingWM_focus_window(self, window) ==
    FloatingWM_inner(self, TilingWM_focus_window(self.tiling_wm, window))

FloatingWM_cycle_focus(self, dir) ==
    FloatingWM_inner(self, TilingWM_cycle_focus(self.tiling_wm, dir))

FloatingWM_get_window_info(self, window) ==
    IF window \notin DOMAIN self.tiling_wm.windows_info
    THEN [info |-> None, res |-> UnknownWindow]
    ELSE LET window_with_info == self.tiling_wm.windows_info[window] IN
         IF window_with_info.float_or_tile = Float
         THEN TilingWM_get_window_info(self.tiling_wm, window)
         ELSE [info |-> Some(window_with_info), res |-> "Ok"]

FloatingWM_resize_screen(self, screen) ==
    FloatingWM_inner(self, TilingWM_resize_screen(self.tiling_wm, screen))

FloatingWM_get_master_window(self) == TilingWM_get_master_window(self.tiling_wm)

FloatingWM_swap_with_master(self, window) ==
    FloatingWM_inner(self, TilingWM_swap_with_master(self.tiling_wm, window))

FloatingWM_swap_windows(self, dir) ==
    IF ~self.tiling_wm.is_focus THEN Ok(self)
    ELSE LET focused == FloatingWM_get_focused_window(self) IN
         IF is_none(focused) THEN Panic(self)
         ELSE LET gi == FloatingWM_get_window_info(self, unwrap(focused)) IN
              IF gi.res # "Ok" THEN Panic(self)
              ELSE IF unwrap(gi.info).float_or_tile = Float THEN Ok(self)
              ELSE FloatingWM_inner(self, TilingWM_swap_windows(self.tiling_wm, dir))

FloatingWM_toggle_floating(self, window) ==
    IF window \notin DOMAIN self.tiling_wm.windows_info
    THEN Err(self, UnknownWindow)
    ELSE IF self.tiling_wm.windows_info[window].float_or_tile = Float
    THEN Ok([self EXCEPT
               !.floats = map_remove(@, window),
               !.tiling_wm.tiles = push_back(@, window),
               !.tiling_wm.windows_info[window].float_or_tile = Tile])
    ELSE LET j == position(self.tiling_wm.tiles, window) IN
         IF j = 0 THEN Panic(self)
         ELSE Ok([self EXCEPT
                    !.tiling_wm.tiles = remove(@, j),
                    !.floats = map_insert(@, window,
                                 self.tiling_wm.windows_info[window].geometry),
                    !.tiling_wm.windows_info[window].float_or_tile = Float])

FloatingWM_set_window_geometry(self, window, new_geometry) ==
    IF window \notin DOMAIN self.tiling_wm.windows_info
    THEN Err(self, UnknownWindow)
    ELSE IF window \in DOMAIN self.floats
    THEN Ok([self EXCEPT
               !.tiling_wm.windows_info[window].geometry = new_geometry,
               !.floats = map_insert(@, window, new_geometry)])
    ELSE Ok(self)

(***************************************************************************)
(* MinimiseWM (d_minimising_windows.rs).  self = [floating_wm, minimised]. *)
(***************************************************************************)
MinimiseWM_new(screen) == [floating_wm |-> FloatingWM_new(screen), minimised |-> << >>]

\* a call of the wrapped FloatingWM
MinimiseWM_inner(self, r) == [wm |-> [self EXCEPT !.floating_wm = r.wm], res |-> r.res]

MinimiseWM_get_windows(self) == FloatingWM_get_windows(self.floating_wm)

MinimiseWM_is_managed(self, window) == contains(MinimiseWM_get_windows(self), window)

MinimiseWM_get_focused_window(self) == FloatingWM_get_focused_window(self.floating_wm)

MinimiseWM_get_minimised_windows(self) == self.minimised

MinimiseWM_is_minimised(self, window) ==
    contains(MinimiseWM_get_minimised_windows(self), window)

MinimiseWM_get_floating_windows(self) == FloatingWM_get_floating_windows(self.floating_wm)

MinimiseWM_is_floating(self, window) == window \in MinimiseWM_get_floating_windows(self)

MinimiseWM_get_window_layout(self) == FloatingWM_get_window_layout(self.floating_wm)

MinimiseWM_get_window_info(self, window) ==
    IF ~MinimiseWM_is_managed(self, window)
    THEN [info |-> None, res |-> UnknownWindow]
    ELSE IF window \notin DOMAIN self.floating_wm.tiling_wm.windows_info
    THEN [info |-> None, res |-> "panic"]
    ELSE [info |-> Some(self.floating_wm.tiling_wm.windows_info[window]), res |-> "Ok"]

MinimiseWM_add_window(self, window_with_info) ==
    MinimiseWM_inner(self, FloatingWM_add_window(self.floating_wm, window_with_info))

RECURSIVE MinimiseWM_toggle_minimised(_, _)
RECURSIVE MinimiseWM_focus_window(_, _)

\* variant: the first non-minimised window of the focus order receives the focus
MinimiseWM_first_unminimised(self) ==
    LET windows == MinimiseWM_get_windows(self)
        cand == {i \in 1 .. (Len(windows) - 1) : ~contains(self.minimised, windows[i])}
    IN IF cand = {} THEN None
       ELSE Some(windows[CHOOSE i \in cand : \A j \in cand : i <= j])

\* the window that receives the focus when the focused window is minimised:
\* the last non-minimised one before the last position of the focus order
MinimiseWM_previous_unminimised(self) ==
    LET windows == MinimiseWM_get_windows(self)
        cand == {i \in 1 .. (Len(windows) - 1) : ~contains(self.minimised, windows[i])}
    IN IF cand = {} THEN None
       ELSE Some(windows[CHOOSE i \in cand : \A j \in cand : j <= i])

MinimiseWM_toggle_minimised(self, window) ==
    IF ~MinimiseWM_is_managed(self, window) THEN Err(self, UnknownWindow)
    ELSE LET gi == MinimiseWM_get_window_info(self, window) IN
    IF gi.res # "Ok" THEN Panic(self)
    ELSE LET window_with_info == unwrap(gi.info) IN
    IF MinimiseWM_is_minimised(self, window)
    THEN LET s1 == IF window_with_info.float_or_tile = Float
                   THEN [self EXCEPT !.floating_wm.floats =
                           map_insert(@, window_with_info.window,
                                      window_with_info.geometry)]
                   ELSE [self EXCEPT !.floating_wm.tiling_wm.tiles =
                           push_back(@, window_with_info.window)]
             i == position(s1.minimised, window)
             s2 == [s1 EXCEPT !.minimised = remove(@, i)]
         IN unwrap_result(MinimiseWM_focus_window(s2, Some(window)))
    ELSE LET s1 == [self EXCEPT !.minimised = Append(@, window)] IN
         IF window_with_info.float_or_tile = Tile
            /\ position(s1.floating_wm.tiling_wm.tiles, window) = 0
         THEN Panic(s1)
         ELSE LET s2 == IF window_with_info.float_or_tile = Float
                        THEN [s1 EXCEPT !.floating_wm.floats = map_remove(@, window)]
                        ELSE [s1 EXCEPT !.floating_wm.tiling_wm.tiles =
                                remove(@, position(@, window))]
                  focus == MinimiseWM_get_focused_window(s2)
              IN IF is_none(focus) \/ focus # Some(window) THEN Ok(s2)
                 ELSE LET len == Len(MinimiseWM_get_windows(s2)) - Len(s2.minimised) IN
                      IF len = 0
                      THEN unwrap_result(MinimiseWM_focus_window(s2, None))
                      ELSE LET p == MinimiseWM_previous_unminimised(s2) IN
                           IF is_none(p) THEN Ok(s2)
                           ELSE unwrap_result(MinimiseWM_focus_window(s2, p))

MinimiseWM_focus_window(self, window) ==
    and_then(IF is_some(window) /\ MinimiseWM_is_managed(self, unwrap(window))
                /\ MinimiseWM_is_minimised(self, unwrap(window))
             THEN unwrap_result(MinimiseWM_toggle_minimised(self, unwrap(window)))
             ELSE Ok(self),
             LAMBDA s1 :
               MinimiseWM_inner(s1, FloatingWM_focus_window(s1.floating_wm, window)))

MinimiseWM_remove_window(self, window) ==
    and_then(IF MinimiseWM_is_managed(self, window) /\ MinimiseWM_is_minimised(self, window)
             THEN unwrap_result(MinimiseWM_toggle_minimised(self, window))
             ELSE Ok(self),
             LAMBDA s1 :
               MinimiseWM_inner(s1, FloatingWM_remove_window(s1.floating_wm, window)))

MinimiseWM_cycle_focus(self, dir) ==
    IF Len(MinimiseWM_get_windows(self)) = 0 THEN Ok(self)
    ELSE and_then(MinimiseWM_inner(self, FloatingWM_cycle_focus(self.floating_wm, dir)),
                  LAMBDA s1 :
                    LET focused == MinimiseWM_get_focused_window(s1) IN
                    IF is_none(focused) THEN Panic(s1)
                    ELSE IF MinimiseWM_is_minimised(s1, unwrap(focused))
                    THEN unwrap_result(MinimiseWM_toggle_minimised(s1, unwrap(focused)))
                    ELSE Ok(s1))

MinimiseWM_resize_screen(self, screen) ==
    MinimiseWM_inner(self, FloatingWM_resize_screen(self.floating_wm, screen))

MinimiseWM_get_master_window(self) == FloatingWM_get_master_window(self.floating_wm)

\* variant: a minimised window is unminimised before its category is looked at
MinimiseWM_swap_with_master_unminimising(self, window) ==
    IF ~MinimiseWM_is_managed(self, window) THEN Err(self, UnknownWindow)
    ELSE and_then(IF MinimiseWM_is_minimised(self, window)
                  THEN unwrap_result(MinimiseWM_toggle_minimised(self, window))
                  ELSE Ok(self),
                  LAMBDA s1 :
                    MinimiseWM_inner(s1,
                        FloatingWM_swap_with_master(s1.floating_wm, window)))

MinimiseWM_swap_with_master(self, window) ==
    IF ~MinimiseWM_is_managed(self, window) THEN Err(self, UnknownWindow)
    ELSE LET gi == MinimiseWM_get_window_info(self, window) IN
    IF gi.res # "Ok" THEN Panic(self)
    ELSE IF unwrap(gi.info).float_or_tile = Float THEN Ok(self)
    ELSE and_then(IF MinimiseWM_is_minimised(self, window)
                  THEN unwrap_result(MinimiseWM_toggle_minimised(self, window))
                  ELSE Ok(self),
                  LAMBDA s1 :
                    MinimiseWM_inner(s1,
                        FloatingWM_swap_with_master(s1.floating_wm, window)))

MinimiseWM_swap_windows(self, dir) ==
    MinimiseWM_inner(self, FloatingWM_swap_windows(self.floating_wm, dir))

MinimiseWM_toggle_floating(self, window) ==
    and_then(IF MinimiseWM_is_managed(self, window) /\ MinimiseWM_is_minimised(self, window)
             THEN unwrap_result(MinimiseWM_toggle_minimised(self, window))
             ELSE Ok(self),
             LAMBDA s1 :
               MinimiseWM_inner(s1, FloatingWM_toggle_floating(s1.floating_wm, window)))

MinimiseWM_set_window_geometry(self, window, new_geometry) ==
    IF ~MinimiseWM_is_managed(self, window) THEN Err(self, UnknownWindow)
    ELSE LET gi == MinimiseWM_get_window_info(self, window) IN
         and_then(IF MinimiseWM_is_minimised(self, window)
                  THEN IF gi.res # "Ok" THEN Panic(self)
                       ELSE IF unwrap(gi.info).float_or_tile = Float
                       THEN unwrap_result(MinimiseWM_toggle_minimised(self, window))
                       ELSE Ok(self)
                  ELSE Ok(self),
                  LAMBDA s1 :
                    MinimiseWM_inner(s1,
                        FloatingWM_set_window_geometry(s1.floating_wm, window,
                                                       new_geometry)))

(***************************************************************************)
(* FullWM (e_fullscreen_windows.rs).  self = [minimise_wm,                 *)
(* fullscreen_window].  get_window_info hands out a copy of the record,    *)
(* so the assignments the code makes to its fullscreen field are lost.     *)
(***************************************************************************)
FullWM_new(screen) == [minimise_wm |-> MinimiseWM_new(screen), fullscreen_window |-> None]

FullWM_get_windows(self) == MinimiseWM_get_windows(self.minimise_wm)

FullWM_is_managed(self, window) == contains(FullWM_get_windows(self), window)

FullWM_get_focused_window(self) == MinimiseWM_get_focused_window(self.minimise_wm)

FullWM_get_screen(self) == self.minimise_wm.floating_wm.tiling_wm.screen

FullWM_get_window_info(self, window) == MinimiseWM_get_window_info(self.minimise_wm, window)

FullWM_get_master_window(self) == MinimiseWM_get_master_window(self.minimise_wm)

FullWM_get_minimised_windows(self) == MinimiseWM_get_minimised_windows(self.minimise_wm)

FullWM_is_minimised(self, window) == contains(FullWM_get_minimised_windows(self), window)

FullWM_get_fullscreen_window(self) == self.fullscreen_window

\* aborts when the fullscreen window has no info; the value is then the empty set
FullWM_get_floating_windows(self) ==
    IF is_some(self.fullscreen_window)
    THEN LET gi == FullWM_get_window_info(self, unwrap(self.fullscreen_window)) IN
         IF gi.res = "Ok" /\ unwrap(gi.info).float_or_tile = Float
         THEN {unwrap(self.fullscreen_window)} ELSE {}
    ELSE MinimiseWM_get_floating_windows(self.minimise_wm)

FullWM_is_floating(self, window) == window \in FullWM_get_floating_windows(self)

\* variant: the layout of the wrapped MinimiseWM, whatever is fullscreen
FullWM_get_window_layout_wrapped(self) ==
    MinimiseWM_get_window_layout(self.minimise_wm)

FullWM_get_window_layout(self) ==
    LET fullscreen == self.fullscreen_window IN
    IF is_none(fullscreen) THEN MinimiseWM_get_window_layout(self.minimise_wm)
    ELSE [focused_window |-> fullscreen,
          windows |-> << << unwrap(fullscreen), to_geometry(FullWM_get_screen(self)) >> >>]

\* a call of the wrapped MinimiseWM
FullWM_inner(self, r) == [wm |-> [self EXCEPT !.minimise_wm = r.wm], res |-> r.res]

RECURSIVE FullWM_toggle_fullscreen(_, _)
RECURSIVE FullWM_focus_window(_, _)

\* variant: a demoted tile is put back at the end of the tile stack
FullWM_toggle_fullscreen_retiling(self, window) ==
    IF ~FullWM_is_managed(self, window) THEN Err(self, UnknownWindow)
    ELSE IF self.fullscreen_window = Some(window)
    THEN Ok([self EXCEPT
               !.fullscreen_window = None,
               !.minimise_wm.floating_wm.tiling_wm.tiles =
                  IF contains(@, window) THEN push_back(remove(@, position(@, window)), window)
                  ELSE @])
    ELSE IF FullWM_get_window_info(self, window).res # "Ok" THEN Panic(self)
    ELSE unwrap_result(FullWM_focus_window(
             [self EXCEPT !.fullscreen_window = Some(window)], Some(window)))

\* variant: promotes the window without giving it the focus
FullWM_toggle_fullscreen_unfocused(self, window) ==
    IF ~FullWM_is_managed(self, window) THEN Err(self, UnknownWindow)
    ELSE IF FullWM_get_window_info(self, window).res # "Ok" THEN Panic(self)
    ELSE IF self.fullscreen_window = Some(window)
    THEN Ok([self EXCEPT !.fullscreen_window = None])
    ELSE Ok([self EXCEPT !.fullscreen_window = Some(window)])

FullWM_toggle_fullscreen(self, window) ==
    IF ~FullWM_is_managed(self, window) THEN Err(self, UnknownWindow)
    ELSE LET fullscreen == self.fullscreen_window IN
    IF is_some(fullscreen)
    THEN IF FullWM_get_window_info(self, unwrap(fullscreen)).res # "Ok" THEN Panic(self)
         ELSE IF unwrap(fullscreen) = window
         THEN Ok([self EXCEPT !.fullscreen_window = None])
         ELSE IF FullWM_get_window_info(self, window).res # "Ok" THEN Panic(self)
         ELSE unwrap_result(FullWM_focus_window(
                  [self EXCEPT !.fullscreen_window = Some(window)], Some(window)))
    ELSE IF FullWM_get_window_info(self, window).res # "Ok" THEN Panic(self)
    ELSE unwrap_result(FullWM_focus_window(
             [self EXCEPT !.fullscreen_window = Some(window)], Some(window)))

FullWM_focus_window(self, window) ==
    IF is_none(window)
    THEN and_then(IF is_some(self.fullscreen_window)
                  THEN unwrap_result(FullWM_toggle_fullscreen(self,
                                         unwrap(self.fullscreen_window)))
                  ELSE Ok(self),
                  LAMBDA s1 :
                    FullWM_inner(s1, MinimiseWM_focus_window(s1.minimise_wm, window)))
    ELSE IF ~FullWM_is_managed(self, unwrap(window))
    THEN FullWM_inner(self, MinimiseWM_focus_window(self.minimise_wm, window))
    ELSE and_then(IF is_some(self.fullscreen_window)
                     /\ unwrap(self.fullscreen_window) # unwrap(window)
                  THEN unwrap_result(FullWM_toggle_fullscreen(self,
                                         unwrap(self.fullscreen_window)))
                  ELSE Ok(self),
                  LAMBDA s1 :
                    FullWM_inner(s1, MinimiseWM_focus_window(s1.minimise_wm, window)))

\* variant: the window that is fullscreen is not demoted before the new one
\* is added
FullWM_add_window_keeping_fullscreen(self, window_with_info) ==
    IF FullWM_is_managed(self, window_with_info.window)
    THEN FullWM_inner(self, MinimiseWM_add_window(self.minimise_wm, window_with_info))
    ELSE and_then(unwrap_result(FullWM_inner(self,
                      MinimiseWM_add_window(self.minimise_wm, window_with_info))),
                  LAMBDA s1 :
                    IF window_with_info.fullscreen
                    THEN unwrap_result(FullWM_toggle_fullscreen(s1,
                                           window_with_info.window))
                    ELSE Ok(s1))

\* variant: demotes the fullscreen window before it looks whether the
\* window is managed
FullWM_add_window_demoting_first(self, window_with_info) ==
    and_then(IF is_none(self.fullscreen_window) THEN Ok(self)
             ELSE unwrap_result(FullWM_toggle_fullscreen(self,
                                    unwrap(self.fullscreen_window))),
             LAMBDA s0 :
               and_then(FullWM_inner(s0,
                            MinimiseWM_add_window(s0.minimise_wm, window_with_info)),
                        LAMBDA s1 :
                          IF window_with_info.fullscreen
                          THEN unwrap_result(FullWM_toggle_fullscreen(s1,
                                                 window_with_info.window))
                          ELSE Ok(s1)))

FullWM_add_window(self, window_with_info) ==
    IF FullWM_is_managed(self, window_with_info.window)
    THEN FullWM_inner(self, MinimiseWM_add_window(self.minimise_wm, window_with_info))
    ELSE and_then(IF is_none(self.fullscreen_window) THEN Ok(self)
                  ELSE unwrap_result(FullWM_toggle_fullscreen(self,
                                         unwrap(self.fullscreen_window))),
                  LAMBDA s0 :
                    and_then(unwrap_result(FullWM_inner(s0,
                                 MinimiseWM_add_window(s0.minimise_wm, window_with_info))),
                             LAMBDA s1 :
                               IF window_with_info.fullscreen
                               THEN unwrap_result(FullWM_toggle_fullscreen(s1,
                                                      window_with_info.window))
                               ELSE Ok(s1)))

FullWM_remove_window(self, window) ==
    IF FullWM_is_managed(self, window) /\ self.fullscreen_window = Some(window)
    THEN and_then(unwrap_result(FullWM_toggle_fullscreen(self, window)),
                  LAMBDA s0 :
                    and_then(unwrap_result(FullWM_inner(s0,
                                 MinimiseWM_remove_window(s0.minimise_wm, window))),
                             LAMBDA s1 : Ok([s1 EXCEPT !.fullscreen_window = None])))
    ELSE FullWM_inner(self, MinimiseWM_remove_window(self.minimise_wm, window))

FullWM_cycle_focus(self, dir) ==
    IF is_some(self.fullscreen_window) /\ ~(Len(FullWM_get_windows(self)) > 1)
    THEN Ok(self)
    ELSE and_then(IF is_some(self.fullscreen_window)
                  THEN unwrap_result(FullWM_toggle_fullscreen(self,
                                         unwrap(self.fullscreen_window)))
                  ELSE Ok(self),
                  LAMBDA s1 :
                    FullWM_inner(s1, MinimiseWM_cycle_focus(s1.minimise_wm, dir)))

FullWM_resize_screen(self, screen) ==
    FullWM_inner(self, MinimiseWM_resize_screen(self.minimise_wm, screen))

FullWM_swap_with_master(self, window) ==
    IF FullWM_is_managed(self, window) /\ is_some(self.fullscreen_window)
    THEN LET master == FullWM_get_master_window(self) IN
         IF unwrap(self.fullscreen_window) = window
         THEN IF is_some(master) /\ unwrap(master) = window THEN Ok(self)
              ELSE LET gi == FullWM_get_window_info(self, window) IN
                   IF gi.res # "Ok" THEN Panic(self)
                   ELSE IF unwrap(gi.info).float_or_tile = Float THEN Ok(self)
                   ELSE and_then(unwrap_result(FullWM_toggle_fullscreen(self, window)),
                                 LAMBDA s1 :
                                   FullWM_inner(s1,
                                       MinimiseWM_swap_with_master(s1.minimise_wm,
                                                                   window)))
         ELSE and_then(IF master = self.fullscreen_window
                       THEN unwrap_result(FullWM_toggle_fullscreen(self, unwrap(master)))
                       ELSE Ok(self),
                       LAMBDA s1 :
                         FullWM_inner(s1,
                             MinimiseWM_swap_with_master(s1.minimise_wm, window)))
    ELSE FullWM_inner(self, MinimiseWM_swap_with_master(self.minimise_wm, window))

FullWM_swap_windows(self, dir) ==
    and_then(IF is_some(self.fullscreen_window)
             THEN LET fullscreen == unwrap(self.fullscreen_window)
                      gi == FullWM_get_window_info(self, fullscreen)
                  IN IF gi.res # "Ok" THEN Panic(self)
                     ELSE IF unwrap(gi.info).float_or_tile = Tile
                     THEN unwrap_result(FullWM_toggle_fullscreen(self, fullscreen))
                     ELSE Ok(self)
             ELSE Ok(self),
             LAMBDA s1 : FullWM_inner(s1, MinimiseWM_swap_windows(s1.minimise_wm, dir)))

FullWM_toggle_floating(self, window) ==
    and_then(IF FullWM_is_managed(self, window) /\ is_some(self.fullscreen_window)
             THEN unwrap_result(FullWM_toggle_fullscreen(self, window))
             ELSE Ok(self),
             LAMBDA s1 :
               FullWM_inner(s1, MinimiseWM_toggle_floating(s1.minimise_wm, window)))

FullWM_set_window_geometry(self, window, new_geometry) ==
    and_then(FullWM_inner(self,
                 MinimiseWM_set_window_geometry(self.minimise_wm, window, new_geometry)),
             LAMBDA s1 :
               IF is_some(s1.fullscreen_window) /\ unwrap(s1.fullscreen_window) = window
                  /\ FullWM_is_floating(s1, window)
               THEN unwrap_result(FullWM_toggle_fullscreen(s1, window))
               ELSE Ok(s1))

FullWM_toggle_minimised(self, window) ==
    and_then(IF ~FullWM_is_managed(self, window) THEN Ok(self)
             ELSE IF ~FullWM_is_minimised(self, window)
             THEN IF is_some(self.fullscreen_window)
                     /\ unwrap(self.fullscreen_window) = window
                  THEN unwrap_result(FullWM_toggle_fullscreen(self, window))
                  ELSE Ok(self)
             ELSE LET gi == FullWM_get_window_info(self, window) IN
                  IF gi.res # "Ok" THEN Panic(self)
                  ELSE IF unwrap(gi.info).fullscreen
                  THEN and_then(IF is_some(self.fullscreen_window)
                                THEN unwrap_result(FullWM_toggle_fullscreen(self,
                                         unwrap(self.fullscreen_window)))
                                ELSE Ok(self),
                                LAMBDA s0 :
                                  unwrap_result(FullWM_toggle_fullscreen(s0, window)))
                  ELSE Ok(self),
             LAMBDA s1 :
               FullWM_inner(s1, MinimiseWM_toggle_minimised(s1.minimise_wm, window)))

(***************************************************************************)
(* GapsWM (f_gaps.rs).  self = [tiling_wm, gap].  The gaps of the model    *)
(* (0 .. MaxGap) are far below half a tile of the screens used, so the     *)
(* c_uint subtractions of get_window_layout never go below zero.           *)
(***************************************************************************)
GapsWM_new(screen) == [tiling_wm |-> TilingWM_new(screen), gap |-> 0]

GapsWM_inner(self, r) == [wm |-> [self EXCEPT !.tiling_wm = r.wm], res |-> r.res]

GapsWM_get_windows(self) == TilingWM_get_windows(self.tiling_wm)

GapsWM_is_managed(self, window) == contains(GapsWM_get_windows(self), window)

GapsWM_get_focused_window(self) == TilingWM_get_focused_window(self.tiling_wm)

GapsWM_add_window(self, window_with_info) ==
    GapsWM_inner(self, TilingWM_add_window(self.tiling_wm, window_with_info))

GapsWM_remove_window(self, window) ==
    GapsWM_inner(self, TilingWM_remove_window(self.tiling_wm, window))

\* variant: the gap is taken off the width and the height once, not twice
GapsWM_get_window_layout_one_side(self) ==
    LET layout == TilingWM_get_window_layout(self.tiling_wm) IN
    IF Len(layout.windows) > 0 /\ self.gap > 0
    THEN [layout EXCEPT !.windows =
            [i \in 1 .. Len(layout.windows) |->
               << layout.windows[i][1],
                  Geometry(layout.windows[i][2].x + self.gap,
                           layout.windows[i][2].y + self.gap,
                           layout.windows[i][2].width - self.gap,
                           layout.windows[i][2].height - self.gap) >>]]
    ELSE layout

GapsWM_get_window_layout(self) ==
    LET layout == TilingWM_get_window_layout(self.tiling_wm) IN
    IF Len(layout.windows) > 0 /\ self.gap > 0
    THEN [layout EXCEPT !.windows =
            [i \in 1 .. Len(layout.windows) |->
               << layout.windows[i][1],
                  Geometry(layout.windows[i][2].x + self.gap,
                           layout.windows[i][2].y + self.gap,
                           layout.windows[i][2].width - self.gap * 2,
                           layout.windows[i][2].height - self.gap * 2) >>]]
    ELSE layout

GapsWM_focus_window(self, window) ==
    GapsWM_inner(self, TilingWM_focus_window(self.tiling_wm, window))

GapsWM_cycle_focus(self, dir) ==
    GapsWM_inner(self, TilingWM_cycle_focus(self.tiling_wm, dir))

GapsWM_resize_screen(self, screen) ==
    GapsWM_inner(self, TilingWM_resize_screen(self.tiling_wm, screen))

GapsWM_get_master_window(self) == TilingWM_get_master_window(self.tiling_wm)

GapsWM_swap_with_master(self, window) ==
    GapsWM_inner(self, TilingWM_swap_with_master(self.tiling_wm, window))

GapsWM_swap_windows(self, dir) ==
    GapsWM_inner(self, TilingWM_swap_windows(self.tiling_wm, dir))

GapsWM_get_gap(self) == self.gap

GapsWM_set_gap(self, gapsize) == Ok([self EXCEPT !.gap = gapsize])

(***************************************************************************)
(* MultiWorkspaceWM (g_multiple_workspaces.rs).  self = [workspaces,       *)
(* index]; workspaces is indexed 0 .. MAX_WORKSPACE_INDEX.  The loops      *)
(* `for i in 0..MAX_WORKSPACE_INDEX` visit 0 .. MAX_WORKSPACE_INDEX - 1.   *)
(***************************************************************************)
MAX_WORKSPACE_INDEX == 3

MultiWorkspaceWM_new(screen) ==
    [workspaces |-> [i \in 0 .. MAX_WORKSPACE_INDEX |-> FullWM_new(screen)], index |-> 0]

\* a call on workspace i
MultiWorkspaceWM_at(self, i, r) ==
    [wm |-> [self EXCEPT !.workspaces[i] = r.wm], res |-> r.res]

MultiWorkspaceWM_get_windows(self) ==
    LET C[i \in 0 .. MAX_WORKSPACE_INDEX] ==
          IF i = 0 THEN << >>
          ELSE C[i - 1] \o FullWM_get_windows(self.workspaces[i - 1])
    IN C[MAX_WORKSPACE_INDEX]

MultiWorkspaceWM_is_managed(self, window) ==
    contains(MultiWorkspaceWM_get_windows(self), window)

MultiWorkspaceWM_get_focused_window(self) ==
    FullWM_get_focused_window(self.workspaces[self.index])

MultiWorkspaceWM_get_window_layout(self) ==
    FullWM_get_window_layout(self.workspaces[self.index])

MultiWorkspaceWM_get_master_window(self) ==
    FullWM_get_master_window(self.workspaces[self.index])

MultiWorkspaceWM_get_fullscreen_window(self) ==
    FullWM_get_fullscreen_window(self.workspaces[self.index])

MultiWorkspaceWM_get_current_workspace_index(self) == self.index

MultiWorkspaceWM_get_floating_windows(self) ==
    UNION {FullWM_get_floating_windows(self.workspaces[i]) :
             i \in 0 .. (MAX_WORKSPACE_INDEX - 1)}

MultiWorkspaceWM_get_minimised_windows(self) ==
    LET C[i \in 0 .. MAX_WORKSPACE_INDEX] ==
          IF i = 0 THEN << >>
          ELSE C[i - 1] \o FullWM_get_minimised_windows(self.workspaces[i - 1])
    IN C[MAX_WORKSPACE_INDEX]

MultiWorkspaceWM_is_minimised(self, window) ==
    contains(MultiWorkspaceWM_get_minimised_windows(self), window)

\* the first workspace of 0 .. MAX_WORKSPACE_INDEX - 1 that manages the window, else 0
MultiWorkspaceWM_find_index(self, window) ==
    LET found == {i \in 0 .. (MAX_WORKSPACE_INDEX - 1) :
                    FullWM_is_managed(self.workspaces[i], window)}
    IN IF found = {} THEN 0 ELSE CHOOSE i \in found : \A j \in found : i <= j

MultiWorkspaceWM_get_window_info(self, window) ==
    IF ~MultiWorkspaceWM_is_managed(self, window)
    THEN [info |-> None, res |-> UnknownWindow]
    ELSE FullWM_get_window_info(
             self.workspaces[MultiWorkspaceWM_find_index(self, window)], window)

MultiWorkspaceWM_add_window(self, window_with_info) ==
    IF MultiWorkspaceWM_is_managed(self, window_with_info.window)
    THEN Err(self, AlreadyManagedWindow)
    ELSE MultiWorkspaceWM_at(self, self.index,
             FullWM_add_window(self.workspaces[self.index], window_with_info))

MultiWorkspaceWM_remove_window(self, window) ==
    IF ~MultiWorkspaceWM_is_managed(self, window) THEN Err(self, UnknownWindow)
    ELSE LET i == MultiWorkspaceWM_find_index(self, window) IN
         unwrap_result(MultiWorkspaceWM_at(self, i,
             FullWM_remove_window(self.workspaces[i], window)))

\* variant: the workspace being left keeps its fullscreen window
MultiWorkspaceWM_switch_workspace_keeping_fullscreen(self, index) ==
    IF index > MAX_WORKSPACE_INDEX THEN Err(self, WorkspaceIndexNotValid)
    ELSE IF index = self.index THEN Ok(self)
    ELSE Ok([self EXCEPT !.index = index])

RECURSIVE MultiWorkspaceWM_switch_workspace(_, _)
RECURSIVE MultiWorkspaceWM_toggle_fullscreen(_, _)

MultiWorkspaceWM_switch_workspace(self, index) ==
    IF index > MAX_WORKSPACE_INDEX THEN Err(self, WorkspaceIndexNotValid)
    ELSE IF index = self.index THEN Ok(self)
    ELSE and_then(IF is_some(MultiWorkspaceWM_get_fullscreen_window(self))
                  THEN unwrap_result(MultiWorkspaceWM_toggle_fullscreen(self,
                           unwrap(MultiWorkspaceWM_get_fullscreen_window(self))))
                  ELSE Ok(self),
                  LAMBDA s1 : Ok([s1 EXCEPT !.index = index]))

MultiWorkspaceWM_toggle_fullscreen(self, window) ==
    IF ~MultiWorkspaceWM_is_managed(self, window) THEN Err(self, UnknownWindow)
    ELSE IF MultiWorkspaceWM_get_fullscreen_window(self) = Some(window)
    THEN MultiWorkspaceWM_at(self, self.index,
             FullWM_toggle_fullscreen(self.workspaces[self.index], window))
    ELSE LET index == MultiWorkspaceWM_find_index(self, window) IN
         and_then(IF index # self.index
                  THEN unwrap_result(MultiWorkspaceWM_switch_workspace(self, index))
                  ELSE Ok(self),
                  LAMBDA s1 :
                    MultiWorkspaceWM_at(s1, index,
                        FullWM_toggle_fullscreen(s1.workspaces[index], window)))

\* the loop of focus_window from workspace i on
RECURSIVE MultiWorkspaceWM_focus_loop(_, _, _)
MultiWorkspaceWM_focus_loop(self, window, i) ==
    IF i >= MAX_WORKSPACE_INDEX THEN Ok(self)
    ELSE IF FullWM_is_managed(self.workspaces[i], unwrap(window))
    THEN and_then(unwrap_result(MultiWorkspaceWM_at(self, i,
                      FullWM_focus_window(self.workspaces[i], window))),
                  LAMBDA s1 :
                    IF i # s1.index
                    THEN unwrap_result(MultiWorkspaceWM_switch_workspace(s1, i))
                    ELSE MultiWorkspaceWM_focus_loop(s1, window, i + 1))
    ELSE MultiWorkspaceWM_focus_loop(self, window, i + 1)

MultiWorkspaceWM_focus_window(self, window) ==
    IF is_none(window)
    THEN MultiWorkspaceWM_at(self, self.index,
             FullWM_focus_window(self.workspaces[self.index], window))
    ELSE IF ~MultiWorkspaceWM_is_managed(self, unwrap(window))
    THEN Err(self, UnknownWindow)
    ELSE MultiWorkspaceWM_focus_loop(self, window, 0)

MultiWorkspaceWM_cycle_focus(self, dir) ==
    MultiWorkspaceWM_at(self, self.index,
        FullWM_cycle_focus(self.workspaces[self.index], dir))

MultiWorkspaceWM_resize_screen(self, screen) ==
    Ok([self EXCEPT !.workspaces =
          [i \in 0 .. MAX_WORKSPACE_INDEX |-> FullWM_resize_screen(@[i], screen).wm]])

MultiWorkspaceWM_swap_with_master(self, window) ==
    MultiWorkspaceWM_at(self, self.index,
        FullWM_swap_with_master(self.workspaces[self.index], window))

MultiWorkspaceWM_swap_windows(self, dir) ==
    MultiWorkspaceWM_at(self, self.index,
        FullWM_swap_windows(self.workspaces[self.index], dir))

MultiWorkspaceWM_toggle_floating(self, window) ==
    IF ~MultiWorkspaceWM_is_managed(self, window) THEN Err(self, UnknownWindow)
    ELSE LET index == MultiWorkspaceWM_find_index(self, window) IN
         MultiWorkspaceWM_at(self, index,
             FullWM_toggle_floating(self.workspaces[index], window))

MultiWorkspaceWM_set_window_geometry(self, window, new_geometry) ==
    IF ~MultiWorkspaceWM_is_managed(self, window) THEN Err(self, UnknownWindow)
    ELSE LET index == MultiWorkspaceWM_find_index(self, window) IN
         MultiWorkspaceWM_at(self, index,
             FullWM_set_window_geometry(self.workspaces[index], window, new_geometry))

MultiWorkspaceWM_toggle_minimised(self, window) ==
    IF ~MultiWorkspaceWM_is_managed(self, window) THEN Err(self, UnknownWindow)
    ELSE LET index == MultiWorkspaceWM_find_index(self, window) IN
         and_then(IF index # self.index /\ MultiWorkspaceWM_is_minimised(self, window)
                  THEN unwrap_result(MultiWorkspaceWM_switch_workspace(self, index))
                  ELSE Ok(self),
                  LAMBDA s1 :
                    MultiWorkspaceWM_at(s1, index,
                        FullWM_toggle_minimised(s1.workspaces[index], window)))

(***************************************************************************)
(* The window manager under test is one of the six types; the public       *)
(* operations dispatch on it.                                              *)
(***************************************************************************)
TilingKinds == {"TilingWM", "GapsWM", "FloatingWM", "MinimiseWM", "FullWM",
                "MultiWorkspaceWM"}
FloatKinds == {"FloatingWM", "MinimiseWM", "FullWM", "MultiWorkspaceWM"}
MinimiseKinds == {"MinimiseWM", "FullWM", "MultiWorkspaceWM"}
FullscreenKinds == {"FullWM", "MultiWorkspaceWM"}
Kinds == TilingKinds

new(k, screen) ==
    CASE k = "TilingWM" -> TilingWM_new(screen)
      [] k = "GapsWM" -> GapsWM_new(screen)
      [] k = "FloatingWM" -> FloatingWM_new(screen)
      [] k = "MinimiseWM" -> MinimiseWM_new(screen)
      [] k = "FullWM" -> FullWM_new(screen)
      [] k = "MultiWorkspaceWM" -> MultiWorkspaceWM_new(screen)

get_windows(k, self) ==
    CASE k = "TilingWM" -> TilingWM_get_windows(self)
      [] k = "GapsWM" -> GapsWM_get_windows(self)
      [] k = "FloatingWM" -> FloatingWM_get_windows(self)
      [] k = "MinimiseWM" -> MinimiseWM_get_windows(self)
      [] k = "FullWM" -> FullWM_get_windows(self)
      [] k = "MultiWorkspaceWM" -> MultiWorkspaceWM_get_windows(self)

\* WindowManager::is_managed, the default method of the trait
is_managed(k, self, window) == contains(get_windows(k, self), window)

get_focused_window(k, self) ==
    CASE k = "TilingWM" -> TilingWM_get_focused_window(self)
      [] k = "GapsWM" -> GapsWM_get_focused_window(self)
      [] k = "FloatingWM" -> FloatingWM_get_focused_window(self)
      [] k = "MinimiseWM" -> MinimiseWM_get_focused_window(self)
      [] k = "FullWM" -> FullWM_get_focused_window(self)
      [] k = "MultiWorkspaceWM" -> MultiWorkspaceWM_get_focused_window(self)

get_window_layout(k, self) ==
    CASE k = "TilingWM" -> TilingWM_get_window_layout(self)
      [] k = "GapsWM" -> GapsWM_get_window_layout(self)
      [] k = "FloatingWM" -> FloatingWM_get_window_layout(self)
      [] k = "MinimiseWM" -> MinimiseWM_get_window_layout(self)
      [] k = "FullWM" -> FullWM_get_window_layout(self)
      [] k = "MultiWorkspaceWM" -> MultiWorkspaceWM_get_window_layout(self)

get_master_window(k, self) ==
    CASE k = "TilingWM" -> TilingWM_get_master_window(self)
      [] k = "GapsWM" -> GapsWM_get_master_window(self)
      [] k = "FloatingWM" -> FloatingWM_get_master_window(self)
      [] k = "MinimiseWM" -> MinimiseWM_get_master_window(self)
      [] k = "FullWM" -> FullWM_get_master_window(self)
      [] k = "MultiWorkspaceWM" -> MultiWorkspaceWM_get_master_window(self)

get_floating_windows(k, self) ==
    CASE k = "FloatingWM" -> FloatingWM_get_floating_windows(self)
      [] k = "MinimiseWM" -> MinimiseWM_get_floating_windows(self)
      [] k = "FullWM" -> FullWM_get_floating_windows(self)
      [] k = "MultiWorkspaceWM" -> MultiWorkspaceWM_get_floating_windows(self)

\* FloatSupport::is_floating, the default method of the trait
is_floating(k, self, window) == window \in get_floating_windows(k, self)

get_minimised_windows(k, self) ==
    CASE k = "MinimiseWM" -> MinimiseWM_get_minimised_windows(self)
      [] k = "FullWM" -> FullWM_get_minimised_windows(self)
      [] k = "MultiWorkspaceWM" -> MultiWorkspaceWM_get_minimised_windows(self)

\* MinimiseSupport::is_minimised, the default method of the trait
is_minimised(k, self, window) == contains(get_minimised_windows(k, self), window)

get_fullscreen_window(k, self) ==
    CASE k = "FullWM" -> FullWM_get_fullscreen_window(self)
      [] k = "MultiWorkspaceWM" -> MultiWorkspaceWM_get_fullscreen_window(self)

add_window(k, self, window_with_info) ==
    CASE k = "TilingWM" -> TilingWM_add_window(self, window_with_info)
      [] k = "GapsWM" -> GapsWM_add_window(self, window_with_info)
      [] k = "FloatingWM" -> FloatingWM_add_window(self, window_with_info)
      [] k = "MinimiseWM" -> MinimiseWM_add_window(self, window_with_info)
      [] k = "FullWM" -> FullWM_add_window(self, window_with_info)
      [] k = "MultiWorkspaceWM" -> MultiWorkspaceWM_add_window(self, window_with_info)

remove_window(k, self, window) ==
    CASE k = "TilingWM" -> TilingWM_remove_window(self, window)
      [] k = "GapsWM" -> GapsWM_remove_window(self, window)
      [] k = "FloatingWM" -> FloatingWM_remove_window(self, window)
      [] k = "MinimiseWM" -> MinimiseWM_remove_window(self, window)
      [] k = "FullWM" -> FullWM_remove_window(self, window)
      [] k = "MultiWorkspaceWM" -> MultiWorkspaceWM_remove_window(self, window)

focus_window(k, self, window) ==
    CASE k = "TilingWM" -> TilingWM_focus_window(self, window)
      [] k = "GapsWM" -> GapsWM_focus_window(self, window)
      [] k = "FloatingWM" -> FloatingWM_focus_window(self, window)
      [] k = "MinimiseWM" -> MinimiseWM_focus_window(self, window)
      [] k = "FullWM" -> FullWM_focus_window(self, window)
      [] k = "MultiWorkspaceWM" -> MultiWorkspaceWM_focus_window(self, window)

cycle_focus(k, self, dir) ==
    CASE k = "TilingWM" -> TilingWM_cycle_focus(self, dir)
      [] k = "GapsWM" -> GapsWM_cycle_focus(self, dir)
      [] k = "FloatingWM" -> FloatingWM_cycle_focus(self, dir)
      [] k = "MinimiseWM" -> MinimiseWM_cycle_focus(self, dir)
      [] k = "FullWM" -> FullWM_cycle_focus(self, dir)
      [] k = "MultiWorkspaceWM" -> MultiWorkspaceWM_cycle_focus(self, dir)

resize_screen(k, self, screen) ==
    CASE k = "TilingWM" -> TilingWM_resize_screen(self, screen)
      [] k = "GapsWM" -> GapsWM_resize_screen(self, screen)
      [] k = "FloatingWM" -> FloatingWM_resize_screen(self, screen)
      [] k = "MinimiseWM" -> MinimiseWM_resize_screen(self, screen)
      [] k = "FullWM" -> FullWM_resize_screen(self, screen)
      [] k = "MultiWorkspaceWM" -> MultiWorkspaceWM_resize_screen(self, screen)

swap_with_master(k, self, window) ==
    CASE k = "TilingWM" -> TilingWM_swap_with_master(self, window)
      [] k = "GapsWM" -> GapsWM_swap_with_master(self, window)
      [] k = "FloatingWM" -> FloatingWM_swap_with_master(self, window)
      [] k = "MinimiseWM" -> MinimiseWM_swap_with_master(self, window)
      [] k = "FullWM" -> FullWM_swap_with_master(self, window)
      [] k = "MultiWorkspaceWM" -> MultiWorkspaceWM_swap_with_master(self, window)

swap_windows(k, self, dir) ==
    CASE k = "TilingWM" -> TilingWM_swap_windows(self, dir)
      [] k = "GapsWM" -> GapsWM_swap_windows(self, dir)
      [] k = "FloatingWM" -> FloatingWM_swap_windows(self, dir)
      [] k = "MinimiseWM" -> MinimiseWM_swap_windows(self, dir)
      [] k = "FullWM" -> FullWM_swap_windows(self, dir)
      [] k = "MultiWorkspaceWM" -> MultiWorkspaceWM_swap_windows(self, dir)

toggle_floating(k, self, window) ==
    CASE k = "FloatingWM" -> FloatingWM_toggle_floating(self, window)
      [] k = "MinimiseWM" -> MinimiseWM_toggle_floating(self, window)
      [] k = "FullWM" -> FullWM_toggle_floating(self, window)
      [] k = "MultiWorkspaceWM" -> MultiWorkspaceWM_toggle_floating(self, window)

set_window_geometry(k, self, window, new_geometry) ==
    CASE k = "FloatingWM" -> FloatingWM_set_window_geometry(self, window, new_geometry)
      [] k = "MinimiseWM" -> MinimiseWM_set_window_geometry(self, window, new_geometry)
      [] k = "FullWM" -> FullWM_set_window_geometry(self, window, new_geometry)
      [] k = "MultiWorkspaceWM" ->
           MultiWorkspaceWM_set_window_geometry(self, window, new_geometry)

toggle_minimised(k, self, window) ==
    CASE k = "MinimiseWM" -> MinimiseWM_toggle_minimised(self, window)
      [] k = "FullWM" -> FullWM_toggle_minimised(self, window)
      [] k = "MultiWorkspaceWM" -> MultiWorkspaceWM_toggle_minimised(self, window)

toggle_fullscreen(k, self, window) ==
    CASE k = "FullWM" -> FullWM_toggle_fullscreen(self, window)
      [] k = "MultiWorkspaceWM" -> MultiWorkspaceWM_toggle_fullscreen(self, window)

(***************************************************************************)
(* The state machine: the backend's event loop calls one public operation  *)
(* at a time.  A call that returns (Ok or a WMError) leaves the receiver   *)
(* as the method left it; a call that panics ends the process: alive       *)
(* becomes FALSE and nothing more happens.                                 *)
(***************************************************************************)
Screens == {SCREEN, RESIZED}
\* the geometries handed to set_window_geometry
Geometries(k) == IF k = "MultiWorkspaceWM" THEN {SOME_GEOM} ELSE {SOME_GEOM, OTHER_GEOM}

\* the window ids the backend uses with a window manager of type k
Windows(k) == IF k = "MultiWorkspaceWM" THEN 0 .. MaxMultiWindow ELSE Window

\* the indices handed to switch_workspace: the first two workspaces, the
\* last one, and the first index that is not valid
WorkspaceIndices == {0, 1, MAX_WORKSPACE_INDEX, MAX_WORKSPACE_INDEX + 1}

\* the WindowWithInfo values the backend hands to add_window
Infos(k) ==
    {WindowWithInfo(w, SOME_GEOM, ft, fs) :
       w \in Windows(k), ft \in {Float, Tile},
       fs \in IF k \in FullscreenKinds THEN BOOLEAN ELSE {FALSE}}

\* number of windows held, over all workspaces
Held(k, self) ==
    IF k = "MultiWorkspaceWM"
    THEN LET C[i \in 0 .. (MAX_WORKSPACE_INDEX + 1)] ==
               IF i = 0 THEN 0
               ELSE C[i - 1] + Len(FullWM_get_windows(self.workspaces[i - 1]))
         IN C[MAX_WORKSPACE_INDEX + 1]
    ELSE Len(get_windows(k, self))

Capacity(k) ==
    IF k = "MultiWorkspaceWM" THEN MaxMultiWindow + 1
    ELSE IF k = "FullWM" THEN MaxFullWindows
    ELSE MaxWindow + 1

Step(op, r) ==
    /\ alive
    /\ wm' = IF r.res = "panic" THEN wm ELSE r.wm
    /\ alive' = (r.res # "panic")
    /\ UNCHANGED kind

\* the window manager is constructed as one of the six types
New(k) ==
    /\ kind = k
    /\ wm = new(k, SCREEN)
    /\ alive = TRUE

Init == \E k \in Kinds : New(k)

AddWindow ==
    \E info \in Infos(kind) :
       /\ Held(kind, wm) < Capacity(kind) \/ is_managed(kind, wm, info.window)
       /\ Step("add_window", add_window(kind, wm, info))

RemoveWindow ==
    \E w \in Windows(kind) : Step("remove_window", remove_window(kind, wm, w))

FocusWindow ==
    \E o \in {None} \cup {Some(w) : w \in Windows(kind)} :
       Step("focus_window", focus_window(kind, wm, o))

CycleFocus ==
    \E dir \in PrevOrNext : Step("cycle_focus", cycle_focus(kind, wm, dir))

ResizeScreen ==
    \E screen \in Screens : Step("resize_screen", resize_screen(kind, wm, screen))

SwapWithMaster ==
    \E w \in Windows(kind) : Step("swap_with_master", swap_with_master(kind, wm, w))

SwapWindows ==
    \E dir \in PrevOrNext : Step("swap_windows", swap_windows(kind, wm, dir))

ToggleFloating ==
    /\ kind \in FloatKinds
    /\ \E w \in Windows(kind) : Step("toggle_floating", toggle_floating(kind, wm, w))

SetWindowGeometry ==
    /\ kind \in FloatKinds
    /\ \E w \in Windows(kind), g \in Geometries(kind) :
          Step("set_window_geometry", set_window_geometry(kind, wm, w, g))

ToggleMinimised ==
    /\ kind \in MinimiseKinds
    /\ \E w \in Windows(kind) : Step("toggle_minimised", toggle_minimised(kind, wm, w))

ToggleFullscreen ==
    /\ kind \in FullscreenKinds
    /\ \E w \in Windows(kind) : Step("toggle_fullscreen", toggle_fullscreen(kind, wm, w))

SetGap ==
    /\ kind = "GapsWM"
    /\ \E g \in 0 .. MaxGap : Step("set_gap", GapsWM_set_gap(wm, g))

SwitchWorkspace ==
    /\ kind = "MultiWorkspaceWM"
    /\ \E i \in WorkspaceIndices :
          Step("switch_workspace", MultiWorkspaceWM_switch_workspace(wm, i))

NextTiling ==
    \/ AddWindow \/ RemoveWindow \/ FocusWindow \/ CycleFocus \/ ResizeScreen
    \/ SwapWithMaster \/ SwapWindows

NextGaps == NextTiling \/ SetGap

NextFloating == NextTiling \/ ToggleFloating \/ SetWindowGeometry

NextMinimise == NextFloating \/ ToggleMinimised

NextFull == NextMinimise \/ ToggleFullscreen

NextMulti == NextFull \/ SwitchWorkspace

NextAny == NextMulti \/ SetGap

SpecTiling == New("TilingWM") /\ [][NextTiling]_vars
SpecGaps == New("GapsWM") /\ [][NextGaps]_vars
SpecFloating == New("FloatingWM") /\ [][NextFloating]_vars
SpecMinimise == New("MinimiseWM") /\ [][NextMinimise]_vars
SpecFull == New("FullWM") /\ [][NextFull]_vars
SpecMulti == New("MultiWorkspaceWM") /\ [][NextMulti]_vars
Spec == Init /\ [][NextAny]_vars

(***************************************************************************)
(* Properties.  Each is stated over the reachable states of one of the     *)
(* specifications above; the result of an operation is the value of its    *)
(* operator on the current state.                                          *)
(***************************************************************************)
\* the windows that have an entry in a layout
layout_windows(layout) == {layout.windows[i][1] : i \in DOMAIN layout.windows}

\* C1: in the composed window manager, when the layout reports a focused
\* window, that window has an entry in the layout's windows (so the focused
\* window is never a minimised one).
C1_FocusedWindowInLayout ==
    LET layout == get_window_layout(kind, wm) IN
    is_some(layout.focused_window)
       => /\ unwrap(layout.focused_window) \in layout_windows(layout)
          /\ ~is_minimised(kind, wm, unwrap(layout.focused_window))

\* C2: in the fullscreen layer at most one window is fullscreen, and when
\* get_fullscreen_window() = Some(w) the layout is the single entry
\* (w, (0, 0, screen.width, screen.height)) with focused_window = Some(w).
C2_FullscreenIsSoleEntry ==
    LET fullscreen == get_fullscreen_window(kind, wm)
        layout == get_window_layout(kind, wm)
        screen == FullWM_get_screen(wm)
    IN /\ Len(fullscreen) <= 1
       /\ is_some(fullscreen)
            => /\ layout.windows =
                    << << unwrap(fullscreen),
                          Geometry(0, 0, screen.width, screen.height) >> >>
               /\ layout.focused_window = fullscreen

\* C2 witness: a window is fullscreen while another window is managed too,
\* on the resized screen.
C2_Witness ==
    /\ is_some(get_fullscreen_window(kind, wm))
    /\ Len(get_windows(kind, wm)) >= 2
    /\ FullWM_get_screen(wm) = RESIZED

\* C3: in the fullscreen layer, if get_fullscreen_window() = Some(w) then
\* get_focused_window() = Some(w), after every operation.
C3_FullscreenIsFocused ==
    is_some(get_fullscreen_window(kind, wm))
       => get_focused_window(kind, wm) = get_fullscreen_window(kind, wm)

\* C4: in every window manager get_focused_window() equals
\* get_window_layout().focused_window.
C4_FocusedAgreesWithLayout ==
    get_focused_window(kind, wm) = get_window_layout(kind, wm).focused_window

\* C5: immediately after add_window(w) returns Ok, is_managed(w) is true and
\* get_focused_window() = Some(w); in the multi-workspace layer on every
\* current workspace index.
C5_AddedWindowManagedAndFocused ==
    \A info \in Infos(kind) :
       \A r \in {add_window(kind, wm, info)} :
          r.res = "Ok" => /\ is_managed(kind, r.wm, info.window)
                          /\ get_focused_window(kind, r.wm) = Some(info.window)

\* the workspaces of the multi-workspace layer that manage window w
managing_workspaces(self, w) ==
    {i \in 0 .. MAX_WORKSPACE_INDEX : FullWM_is_managed(self.workspaces[i], w)}

\* C6: a window id has at most one management record: it occurs at most once
\* in get_windows(), and in the multi-workspace layer at most one workspace
\* manages it.
C6_OneManagementRecord ==
    LET windows == get_windows(kind, wm) IN
    /\ \A i, j \in DOMAIN windows : windows[i] = windows[j] => i = j
    /\ kind = "MultiWorkspaceWM"
         => \A w \in Windows(kind) : Cardinality(managing_workspaces(wm, w)) <= 1

\* the results of every public operation, on every input, called on self
Calls(k, self) ==
    {add_window(k, self, info) : info \in Infos(k)}
      \cup {remove_window(k, self, w) : w \in Windows(k)}
      \cup {focus_window(k, self, o) : o \in {None} \cup {Some(w) : w \in Windows(k)}}
      \cup {cycle_focus(k, self, dir) : dir \in PrevOrNext}
      \cup {resize_screen(k, self, screen) : screen \in Screens}
      \cup {swap_with_master(k, self, w) : w \in Windows(k)}
      \cup {swap_windows(k, self, dir) : dir \in PrevOrNext}
      \cup (IF k \in FloatKinds
            THEN {toggle_floating(k, self, w) : w \in Windows(k)}
                   \cup {set_window_geometry(k, self, w, g) :
                           w \in Windows(k), g \in Geometries(k)}
            ELSE {})
      \cup (IF k \in MinimiseKinds
            THEN {toggle_minimised(k, self, w) : w \in Windows(k)} ELSE {})
      \cup (IF k \in FullscreenKinds
            THEN {toggle_fullscreen(k, self, w) : w \in Windows(k)} ELSE {})
      \cup (IF k = "GapsWM" THEN {GapsWM_set_gap(self, g) : g \in 0 .. MaxGap} ELSE {})
      \cup (IF k = "MultiWorkspaceWM"
            THEN {MultiWorkspaceWM_switch_workspace(self, i) : i \in WorkspaceIndices}
            ELSE {})

WMError == {UnknownWindow, AlreadyManagedWindow, WorkspaceIndexNotValid}

\* C7: an operation that returns an error leaves the whole state as it was.
C7_ErrorLeavesStateUnchanged ==
    \A r \in Calls(kind, wm) : r.res \in WMError => r.wm = wm

\* C7 witness: while a window is fullscreen and another one is minimised,
\* add_window of a managed window returns AlreadyManagedWindow and
\* toggle_minimised of an unmanaged window returns UnknownWindow.
C7_Witness ==
    /\ kind \in FullscreenKinds
    /\ is_some(get_fullscreen_window(kind, wm))
    /\ get_minimised_windows(kind, wm) # << >>
    /\ \E info \in Infos(kind) :
          /\ Some(info.window) # get_fullscreen_window(kind, wm)
          /\ add_window(kind, wm, info).res = AlreadyManagedWindow
    /\ \E w \in Windows(kind) : toggle_minimised(kind, wm, w).res = UnknownWindow

\* C8: no public operation panics in a reachable state.
C8_NoPanic ==
    /\ alive
    /\ \A r \in Calls(kind, wm) : r.res # "panic"

\* the tiles of a TilingWM on a screen of size W x H, as C9 lays them out
tiling_layout(tiles, W, H) ==
    LET n == Len(tiles) IN
    [i \in 1 .. n |->
       IF n = 1 THEN << tiles[1], Geometry(0, 0, W, H) >>
       ELSE IF i = 1 THEN << tiles[1], Geometry(0, 0, W \div 2, H) >>
       ELSE << tiles[i],
               Geometry(W \div 2, (i - 2) * (H \div (n - 1)), W \div 2, H \div (n - 1)) >>]

\* C9: the layout of a TilingWM with n tiles on a W x H screen lists the tiles
\* in master-stack order: none for n = 0, the whole screen for n = 1, and for
\* n >= 2 the master on the left half and the i-th side tile at
\* (W div 2, (i-1)*(H div (n-1)), W div 2, H div (n-1)); the focused window is
\* the last element of the focus order.
C9_TilingLayout ==
    LET layout == TilingWM_get_window_layout(wm)
        windows == TilingWM_get_windows(wm)
    IN /\ layout.windows = tiling_layout(wm.tiles, wm.screen.width, wm.screen.height)
       /\ layout.focused_window = TilingWM_get_focused_window(wm)
       /\ is_some(layout.focused_window)
            => layout.focused_window = Some(windows[Len(windows)])

\* C9 witness: three tiles on the resized screen, one of them focused.
C9_Witness ==
    /\ Len(wm.tiles) = 3
    /\ wm.screen = RESIZED
    /\ is_some(TilingWM_get_window_layout(wm).focused_window)

\* a tile holds the focus
tile_focused(self) ==
    /\ is_some(TilingWM_get_focused_window(self))
    /\ contains(self.tiles, unwrap(TilingWM_get_focused_window(self)))

\* C10: in a TilingWM with at least two tiles, one of them focused,
\* swap_windows(dir) followed by swap_windows(dir.opposite()) leaves
\* get_window_layout() as it was.
C10_SwapWindowsRoundTrip ==
    \A dir \in PrevOrNext :
       (Len(wm.tiles) >= 2 /\ tile_focused(wm))
          => LET r1 == TilingWM_swap_windows(wm, dir)
                 r2 == TilingWM_swap_windows(r1.wm, opposite(dir))
             IN /\ r1.res = "Ok"
                /\ r2.res = "Ok"
                /\ TilingWM_get_window_layout(r2.wm) = TilingWM_get_window_layout(wm)

\* C10 witness: three tiles, the master focused, and swap_windows(Prev)
\* changes the layout before the opposite swap restores it.
C10_Witness ==
    /\ Len(wm.tiles) = 3
    /\ TilingWM_get_focused_window(wm) = Some(wm.tiles[1])
    /\ TilingWM_get_window_layout(TilingWM_swap_windows(wm, Prev).wm)
         # TilingWM_get_window_layout(wm)

\* the tile stack of the window manager (of its current workspace)
tiles(k, self) ==
    CASE k = "TilingWM" -> self.tiles
      [] k = "GapsWM" -> self.tiling_wm.tiles
      [] k = "FloatingWM" -> self.tiling_wm.tiles
      [] k = "MinimiseWM" -> self.floating_wm.tiling_wm.tiles
      [] k = "FullWM" -> self.minimise_wm.floating_wm.tiling_wm.tiles
      [] k = "MultiWorkspaceWM" ->
           self.workspaces[self.index].minimise_wm.floating_wm.tiling_wm.tiles

\* C11: whenever swap_with_master(w) returns Ok, afterwards
\* get_master_window() = Some(w) and get_focused_window() = Some(w); if w was
\* a tile other than the master, the former master is at w's former position
\* of the tile stack.
C11_SwapWithMasterMakesMaster ==
    \A w \in Windows(kind) :
       \A r \in {swap_with_master(kind, wm, w)} :
          r.res = "Ok"
            => /\ get_master_window(kind, r.wm) = Some(w)
               /\ get_focused_window(kind, r.wm) = Some(w)
               /\ position(tiles(kind, wm), w) > 1
                    => /\ position(tiles(kind, wm), w) <= Len(tiles(kind, r.wm))
                       /\ tiles(kind, r.wm)[position(tiles(kind, wm), w)]
                            = tiles(kind, wm)[1]

C13_ToggleFloatingTwice ==
    kind \in FloatKinds
      => \A w \in Windows(kind) :
           is_managed(kind, wm, w)
             => \A r1 \in {toggle_floating(kind, wm, w)} :
                  \A r2 \in {toggle_floating(kind, r1.wm, w)} :
                     /\ r1.res = "Ok"
                          => is_floating(kind, r1.wm, w) = ~is_floating(kind, wm, w)
                     /\ (r1.res = "Ok" /\ r2.res = "Ok")
                          => is_floating(kind, r2.wm, w) = is_floating(kind, wm, w)

\* C14: in every reachable state with no fullscreen window, the entry of
\* every floating window in get_window_layout().windows comes after the
\* entries of all the tiled windows, and the entries of the floating windows
\* are in focus order (the order of get_windows()).
C14_FloatsAboveTiles ==
    (kind \in FloatKinds
       /\ (kind \in FullscreenKinds => is_none(get_fullscreen_window(kind, wm))))
      => \A layout \in {get_window_layout(kind, wm).windows} :
           \A i, j \in DOMAIN layout :
              (i < j /\ is_floating(kind, wm, layout[i][1]))
                => /\ is_floating(kind, wm, layout[j][1])
                   /\ position(get_windows(kind, wm), layout[i][1])
                        < position(get_windows(kind, wm), layout[j][1])

\* the windows a window manager reports as floating, minimised or fullscreen
reported(k, self) ==
    (IF k \in FloatKinds THEN get_floating_windows(k, self) ELSE {})
      \cup (IF k \in MinimiseKinds
            THEN {get_minimised_windows(k, self)[i] :
                    i \in DOMAIN get_minimised_windows(k, self)}
            ELSE {})
      \cup (IF k \in FullscreenKinds /\ is_some(get_fullscreen_window(k, self))
            THEN {unwrap(get_fullscreen_window(k, self))} ELSE {})

\* C15: every window reported by get_floating_windows(),
\* get_minimised_windows() or get_fullscreen_window() is managed, and after
\* remove_window(w) returns Ok, w is reported by none of them.
C15_ReportedWindowsAreManaged ==
    /\ \A w \in reported(kind, wm) : is_managed(kind, wm, w)
    /\ \A w \in Windows(kind) :
          \A r \in {remove_window(kind, wm, w)} :
             r.res = "Ok" => w \notin reported(kind, r.wm)

\* the sequence without the entries equal to x, the others in their order
without(seq, x) ==
    LET F[n \in 0 .. Len(seq)] ==
          IF n = 0 THEN << >>
          ELSE IF seq[n] = x THEN F[n - 1] ELSE Append(F[n - 1], seq[n])
    IN F[Len(seq)]

\* seq is what is left of old after some of its entries are taken out
kept_in_order(seq, old) ==
    /\ \A i, j \in DOMAIN seq : seq[i] = seq[j] => i = j
    /\ \A i \in DOMAIN seq : contains(old, seq[i])
    /\ \A i, j \in DOMAIN seq :
          i < j => position(old, seq[i]) < position(old, seq[j])

\* C16: get_minimised_windows() lists the minimised windows, each once and
\* each managed, in the order in which they were minimised: minimising a
\* window appends it, a window that is un-minimised or removed is taken out,
\* and no operation changes the relative order of the windows that stay.
C16_MinimisedInOrder ==
    kind \in MinimiseKinds
      => \A m \in {get_minimised_windows(kind, wm)} :
           /\ \A i, j \in DOMAIN m : m[i] = m[j] => i = j
           /\ \A i \in DOMAIN m : is_managed(kind, wm, m[i])
           /\ \A w \in Windows(kind) :
                 \A r \in {toggle_minimised(kind, wm, w)} :
                    r.res = "Ok"
                      => IF is_minimised(kind, r.wm, w)
                         THEN get_minimised_windows(kind, r.wm)
                                = Append(without(m, w), w)
                         ELSE get_minimised_windows(kind, r.wm) = without(m, w)
           /\ \A w \in Windows(kind) :
                 \A r \in {remove_window(kind, wm, w)} :
                    r.res = "Ok" => get_minimised_windows(kind, r.wm) = without(m, w)
           /\ \A r \in Calls(kind, wm) :
                 r.res = "Ok"
                   => \E k \in 0 .. Len(get_minimised_windows(kind, r.wm)) :
                         /\ Len(get_minimised_windows(kind, r.wm)) - k <= 1
                         /\ kept_in_order(
                                SubSeq(get_minimised_windows(kind, r.wm), 1, k), m)

\* C17: when toggle_minimised(w) returns Ok for a window that was not
\* minimised, afterwards is_minimised(w) is true and w has no entry in
\* get_window_layout().windows; when it returns Ok for a minimised window,
\* afterwards is_minimised(w) is false, w has an entry in the layout and w
\* is the focused window.
C17_ToggleMinimised ==
    kind \in MinimiseKinds
      => \A w \in Windows(kind) :
           \A r \in {toggle_minimised(kind, wm, w)} :
              r.res = "Ok"
                => IF is_minimised(kind, wm, w)
                   THEN /\ ~is_minimised(kind, r.wm, w)
                        /\ w \in layout_windows(get_window_layout(kind, r.wm))
                        /\ get_focused_window(kind, r.wm) = Some(w)
                   ELSE /\ is_minimised(kind, r.wm, w)
                        /\ w \notin layout_windows(get_window_layout(kind, r.wm))

\* C18: when w is the fullscreen window, toggle_minimised(w) followed by
\* toggle_minimised(w) ends with get_fullscreen_window() = Some(w).
C18_MinimisedFullscreenReturns ==
    kind \in FullscreenKinds
      => \A f \in {get_fullscreen_window(kind, wm)} :
           is_some(f)
             => \A r1 \in {toggle_minimised(kind, wm, unwrap(f))} :
                  \A r2 \in {toggle_minimised(kind, r1.wm, unwrap(f))} :
                     (r1.res = "Ok" /\ r2.res = "Ok")
                       => get_fullscreen_window(kind, r2.wm) = f

\* the FullWM that is workspace i of the window manager
workspace(k, self, i) == IF k = "MultiWorkspaceWM" THEN self.workspaces[i] ELSE self

\* the index of the current workspace
current_index(k, self) == IF k = "MultiWorkspaceWM" THEN self.index ELSE 0

\* window f has in the FullWM after the tile position and the float
\* geometry it has in the FullWM before
same_place(before, after, f) ==
    /\ position(after.minimise_wm.floating_wm.tiling_wm.tiles, f)
         = position(before.minimise_wm.floating_wm.tiling_wm.tiles, f)
    /\ (f \in DOMAIN after.minimise_wm.floating_wm.floats)
         = (f \in DOMAIN before.minimise_wm.floating_wm.floats)
    /\ f \in DOMAIN before.minimise_wm.floating_wm.floats
         => after.minimise_wm.floating_wm.floats[f]
              = before.minimise_wm.floating_wm.floats[f]

\* C19: toggle_fullscreen(w) on a managed window w that is not fullscreen
\* ends with get_fullscreen_window() = Some(w), w focused, w not minimised
\* and w the only entry of the layout, with the rectangle of the screen; a
\* window that was fullscreen before keeps its tile position and its float
\* geometry.
C19_ToggleFullscreenPromotes ==
    kind \in FullscreenKinds
      => \A w \in Windows(kind) :
           (is_managed(kind, wm, w) /\ get_fullscreen_window(kind, wm) # Some(w))
             => \A r \in {toggle_fullscreen(kind, wm, w)} :
                  /\ r.res = "Ok"
                  /\ get_fullscreen_window(kind, r.wm) = Some(w)
                  /\ get_focused_window(kind, r.wm) = Some(w)
                  /\ ~is_minimised(kind, r.wm, w)
                  /\ get_window_layout(kind, r.wm).windows
                       = << << w, to_geometry(
                                    FullWM_get_screen(workspace(kind, r.wm,
                                        current_index(kind, r.wm)))) >> >>
                  /\ \A f \in Windows(kind) :
                        get_fullscreen_window(kind, wm) = Some(f)
                          => same_place(workspace(kind, wm, current_index(kind, wm)),
                                        workspace(kind, r.wm, current_index(kind, wm)),
                                        f)

\* C19 witness: a tile is fullscreen, and toggle_fullscreen promotes another
\* window, which is minimised.
C19_Witness ==
    /\ kind \in FullscreenKinds
    /\ is_some(get_fullscreen_window(kind, wm))
    /\ position(tiles(kind, wm), unwrap(get_fullscreen_window(kind, wm))) > 0
    /\ \E w \in Windows(kind) :
          /\ is_minimised(kind, wm, w)
          /\ Some(w) # get_fullscreen_window(kind, wm)
          /\ get_fullscreen_window(kind, toggle_fullscreen(kind, wm, w).wm) = Some(w)

\* the rectangle geometry with a margin of g taken off each of its four sides
inset(geometry, g) ==
    Geometry(geometry.x + g, geometry.y + g, geometry.width - 2 * g,
             geometry.height - 2 * g)

\* C20: the layout of a GapsWM with gap g is the layout of the wrapped
\* TilingWM with every rectangle (x, y, w, h) replaced by (x+g, y+g, w-2g,
\* h-2g), in the same order and with the same focus, whenever 2g is smaller
\* than the width and the height of every tile; with g = 0 it is the tiling
\* layout itself.  get_gap() is 0 after new and g after set_gap(g), and
\* set_gap changes nothing but the gap.
C20_GapsLayout ==
    kind = "GapsWM"
      => /\ \A screen \in Screens : GapsWM_get_gap(GapsWM_new(screen)) = 0
         /\ \A tiling \in {TilingWM_get_window_layout(wm.tiling_wm)} :
            \A layout \in {GapsWM_get_window_layout(wm)} :
              /\ (\A i \in 1 .. Len(tiling.windows) :
                    /\ 2 * GapsWM_get_gap(wm) < tiling.windows[i][2].width
                    /\ 2 * GapsWM_get_gap(wm) < tiling.windows[i][2].height)
                   => /\ layout.focused_window = tiling.focused_window
                      /\ Len(layout.windows) = Len(tiling.windows)
                      /\ \A i \in 1 .. Len(tiling.windows) :
                            /\ layout.windows[i][1] = tiling.windows[i][1]
                            /\ layout.windows[i][2]
                                 = inset(tiling.windows[i][2], GapsWM_get_gap(wm))
              /\ GapsWM_get_gap(wm) = 0 => layout = tiling
         /\ \A g \in 0 .. MaxGap : \A r \in {GapsWM_set_gap(wm, g)} :
              /\ r.res = "Ok"
              /\ GapsWM_get_gap(r.wm) = g
              /\ r.wm.tiling_wm = wm.tiling_wm
              /\ DOMAIN r.wm = DOMAIN wm

\* C20 witness: a gap has been set and two tiles or more are laid out
C20_Witness ==
    /\ kind = "GapsWM"
    /\ GapsWM_get_gap(wm) > 0
    /\ Len(GapsWM_get_window_layout(wm).windows) >= 2
    /\ is_some(GapsWM_get_window_layout(wm).focused_window)

\* the concatenation, in workspace order 0 .. MAX_WORKSPACE_INDEX, of the
\* lists list(ws) of all the workspaces of a MultiWorkspaceWM
all_workspaces(self, list(_)) ==
    LET C[i \in 0 .. (MAX_WORKSPACE_INDEX + 1)] ==
          IF i = 0 THEN << >> ELSE C[i - 1] \o list(self.workspaces[i - 1])
    IN C[MAX_WORKSPACE_INDEX + 1]

\* C21: in the multi-workspace layer get_windows(), get_floating_windows()
\* and get_minimised_windows() are the concatenation, in workspace order, of
\* the lists of all MAX_WORKSPACE_INDEX + 1 workspaces (so a window of any
\* workspace is in get_windows() whichever workspace is current), while
\* get_focused_window() and get_window_layout() are those of the current
\* workspace.
C21_ListsSpanAllWorkspaces ==
    kind = "MultiWorkspaceWM"
      => /\ MultiWorkspaceWM_get_windows(wm) = all_workspaces(wm, FullWM_get_windows)
         /\ MultiWorkspaceWM_get_minimised_windows(wm)
              = all_workspaces(wm, FullWM_get_minimised_windows)
         /\ MultiWorkspaceWM_get_floating_windows(wm)
              = UNION {FullWM_get_floating_windows(wm.workspaces[i]) :
                         i \in 0 .. MAX_WORKSPACE_INDEX}
         /\ \A w \in Windows(kind) : \A i \in 0 .. MAX_WORKSPACE_INDEX :
              FullWM_is_managed(wm.workspaces[i], w)
                => \A j \in WorkspaceIndices :
                     \A r \in {MultiWorkspaceWM_switch_workspace(wm, j)} :
                       r.res # "panic" /\ contains(MultiWorkspaceWM_get_windows(r.wm), w)
         /\ MultiWorkspaceWM_get_focused_window(wm)
              = FullWM_get_focused_window(wm.workspaces[wm.index])
         /\ MultiWorkspaceWM_get_window_layout(wm)
              = FullWM_get_window_layout(wm.workspaces[wm.index])

\* C22: in the multi-workspace layer focus_window(Some(w)) for a window w
\* that some workspace manages returns Ok, and afterwards the current
\* workspace is the one that owns w and get_focused_window() = Some(w);
\* focus_window(None) leaves the current workspace without focus and never
\* changes the current workspace index.
C22_FocusSwitchesToOwner ==
    kind = "MultiWorkspaceWM"
      => /\ \A w \in Windows(kind) : \A i \in managing_workspaces(wm, w) :
              \A r \in {MultiWorkspaceWM_focus_window(wm, Some(w))} :
                /\ r.res = "Ok"
                /\ MultiWorkspaceWM_get_current_workspace_index(r.wm) = i
                /\ MultiWorkspaceWM_get_focused_window(r.wm) = Some(w)
         /\ \A r \in {MultiWorkspaceWM_focus_window(wm, None)} :
              /\ r.res = "Ok"
              /\ MultiWorkspaceWM_get_focused_window(r.wm) = None
              /\ MultiWorkspaceWM_get_current_workspace_index(r.wm)
                   = MultiWorkspaceWM_get_current_workspace_index(wm)

\* C23: in the multi-workspace layer, switching from the current workspace i
\* to any valid workspace j and back to i leaves get_window_layout() exactly
\* as it was, also when a window of workspace i is fullscreen.
C23_SwitchAndBack ==
    kind = "MultiWorkspaceWM"
      => \A j \in 0 .. MAX_WORKSPACE_INDEX :
           \A r1 \in {MultiWorkspaceWM_switch_workspace(wm, j)} :
             /\ r1.res = "Ok"
             /\ \A r2 \in {MultiWorkspaceWM_switch_workspace(r1.wm, wm.index)} :
                  /\ r2.res = "Ok"
                  /\ MultiWorkspaceWM_get_window_layout(r2.wm)
                       = MultiWorkspaceWM_get_window_layout(wm)

\* C24: switch_workspace(i) with 0 <= i <= MAX_WORKSPACE_INDEX always returns
\* Ok and makes i the current index, changing nothing when i is already
\* current; with i > MAX_WORKSPACE_INDEX it returns WorkspaceIndexNotValid and
\* changes nothing; get_current_workspace_index() is 0 after new and always
\* within 0 .. MAX_WORKSPACE_INDEX.
C24_SwitchWorkspace ==
    kind = "MultiWorkspaceWM"
      => /\ \A screen \in Screens :
              MultiWorkspaceWM_get_current_workspace_index(MultiWorkspaceWM_new(screen)) = 0
         /\ MultiWorkspaceWM_get_current_workspace_index(wm) \in 0 .. MAX_WORKSPACE_INDEX
         /\ \A i \in 0 .. (MAX_WORKSPACE_INDEX + 1) :
              \A r \in {MultiWorkspaceWM_switch_workspace(wm, i)} :
                IF i > MAX_WORKSPACE_INDEX
                THEN r.res = WorkspaceIndexNotValid /\ r.wm = wm
                ELSE /\ r.res = "Ok"
                     /\ MultiWorkspaceWM_get_current_workspace_index(r.wm) = i
                     /\ i = MultiWorkspaceWM_get_current_workspace_index(wm) => r.wm = wm

\* C25: in every layer, remove_window(w) on a managed window w that is not
\* the focused window leaves get_focused_window() unchanged (also when it is
\* None), and afterwards w is not managed.
C25_RemoveUnfocusedKeepsFocus ==
    \A w \in Windows(kind) :
      (is_managed(kind, wm, w) /\ get_focused_window(kind, wm) # Some(w))
        => \A r \in {remove_window(kind, wm, w)} :
             /\ r.res = "Ok"
             /\ get_focused_window(kind, r.wm) = get_focused_window(kind, wm)
             /\ ~is_managed(kind, r.wm, w)

\* C26: in the minimise layer with no fullscreen window, if the focused
\* window w is floating or holds the last position of the tile stack, then
\* toggle_minimised(w) followed at once by toggle_minimised(w) restores
\* get_window_layout() exactly (windows, geometries, stacking order, focus);
\* when w is the only visible window the layout in between is empty and has
\* no focus.
C26_MinimiseTwiceRestoresLayout ==
    (kind \in MinimiseKinds
       /\ (kind \in FullscreenKinds => get_fullscreen_window(kind, wm) = None))
      => \A w \in Windows(kind) :
           (/\ get_focused_window(kind, wm) = Some(w)
            /\ \/ is_floating(kind, wm, w)
               \/ back(tiles(kind, wm)) = Some(w))
             => \A r1 \in {toggle_minimised(kind, wm, w)} :
                  /\ r1.res = "Ok"
                  /\ layout_windows(get_window_layout(kind, wm)) = {w}
                       => get_window_layout(kind, r1.wm) = WindowLayout_new
                  /\ \A r2 \in {toggle_minimised(kind, r1.wm, w)} :
                       /\ r2.res = "Ok"
                       /\ get_window_layout(kind, r2.wm) = get_window_layout(kind, wm)

\* C27: when remove_window removes the master tile and other tiles remain,
\* the window of the first side tile (tile-stack index 1) becomes the master
\* and the remaining tiles keep their relative order; removing a side tile
\* leaves the master and the relative order of the other tiles unchanged.
C27_RemoveTileKeepsOrder ==
    kind \in TilingKinds
      => \A w \in Windows(kind) :
           position(tiles(kind, wm), w) > 0
             => \A r \in {remove_window(kind, wm, w)} :
                  /\ r.res = "Ok"
                  /\ tiles(kind, r.wm) = without(tiles(kind, wm), w)
                  /\ (position(tiles(kind, wm), w) = 1 /\ Len(tiles(kind, wm)) > 1)
                       => get_master_window(kind, r.wm) = Some(tiles(kind, wm)[2])
                  /\ position(tiles(kind, wm), w) > 1
                       => get_master_window(kind, r.wm) = get_master_window(kind, wm)

\* C27 witness: three tiles are laid out and remove_window takes the master
\* out, which leaves the two side tiles in their order
C27_Witness ==
    /\ kind \in TilingKinds
    /\ Len(tiles(kind, wm)) = 3
    /\ Len(get_window_layout(kind, wm).windows) = 3
    /\ \E w \in Windows(kind) :
          /\ get_master_window(kind, wm) = Some(w)
          /\ remove_window(kind, wm, w).res = "Ok"
          /\ Len(tiles(kind, remove_window(kind, wm, w).wm)) = 2

\* the non-minimised window closest before w in the focus order seq, if any
closest_before(seq, minimised, w) ==
    LET before == {i \in 1 .. (position(seq, w) - 1) : ~contains(minimised, seq[i])}
    IN IF before = {} THEN None
       ELSE Some(seq[CHOOSE i \in before : \A j \in before : j <= i])

\* the focus order of the current workspace: the focused window, if any, is last
focus_order(k, self) ==
    CASE k = "MinimiseWM" -> self.floating_wm.tiling_wm.windows
      [] k = "FullWM" -> self.minimise_wm.floating_wm.tiling_wm.windows
      [] k = "MultiWorkspaceWM" ->
           self.workspaces[self.index].minimise_wm.floating_wm.tiling_wm.windows

\* C28: when toggle_minimised(w) minimises the focused window, the focus moves
\* to the non-minimised window closest before w in the focus order, or becomes
\* None when every remaining window is minimised; when w is not the focused
\* window the focus is unchanged.
C28_MinimiseMovesFocus ==
    kind \in MinimiseKinds
      => \A w \in Windows(kind) :
           (is_managed(kind, wm, w) /\ ~is_minimised(kind, wm, w))
             => \A r \in {toggle_minimised(kind, wm, w)} :
                  /\ r.res = "Ok"
                  /\ get_focused_window(kind, wm) = Some(w)
                       => get_focused_window(kind, r.wm)
                            = IF \A x \in Windows(kind) :
                                   (is_managed(kind, wm, x) /\ x # w)
                                     => is_minimised(kind, wm, x)
                              THEN None
                              ELSE closest_before(focus_order(kind, wm),
                                       get_minimised_windows(kind, wm), w)
                  /\ get_focused_window(kind, wm) # Some(w)
                       => get_focused_window(kind, r.wm) = get_focused_window(kind, wm)

\* C28 witness: of three windows the focused one is minimised while the window
\* just before it in the focus order is minimised already, and the focus
\* moves to the first window
C28_Witness ==
    /\ kind \in MinimiseKinds
    /\ Len(focus_order(kind, wm)) = 3
    /\ get_focused_window(kind, wm) = Some(focus_order(kind, wm)[3])
    /\ get_minimised_windows(kind, wm) = << focus_order(kind, wm)[2] >>
    /\ get_focused_window(kind, toggle_minimised(kind, wm, focus_order(kind, wm)[3]).wm)
         = Some(focus_order(kind, wm)[1])

\* C29: toggle_fullscreen(w) on the window that is fullscreen only clears the
\* fullscreen state: get_fullscreen_window() becomes None, and the tile stack,
\* the floating map with its geometries, the minimised list, the focus order
\* and the float/tile category of every window are as before.
C29_ToggleFullscreenOffOnlyClears ==
    kind \in FullscreenKinds
      => \A w \in Windows(kind) :
           get_fullscreen_window(kind, wm) = Some(w)
             => \A r \in {toggle_fullscreen(kind, wm, w)} :
                  /\ r.res = "Ok"
                  /\ get_fullscreen_window(kind, r.wm) = None
                  /\ current_index(kind, r.wm) = current_index(kind, wm)
                  /\ \A i \in {current_index(kind, wm)} :
                     \A before \in {workspace(kind, wm, i).minimise_wm} :
                     \A after \in {workspace(kind, r.wm, i).minimise_wm} :
                       /\ after.floating_wm.tiling_wm.tiles = before.floating_wm.tiling_wm.tiles
                       /\ after.floating_wm.floats = before.floating_wm.floats
                       /\ after.minimised = before.minimised
                       /\ after.floating_wm.tiling_wm.windows
                            = before.floating_wm.tiling_wm.windows
                       /\ after.floating_wm.tiling_wm.is_focus
                            = before.floating_wm.tiling_wm.is_focus
                       /\ \A x \in DOMAIN before.floating_wm.tiling_wm.windows_info :
                            /\ x \in DOMAIN after.floating_wm.tiling_wm.windows_info
                            /\ after.floating_wm.tiling_wm.windows_info[x].float_or_tile
                                 = before.floating_wm.tiling_wm.windows_info[x].float_or_tile

\* C29 witness: the master tile is fullscreen above a second tile, and
\* toggle_fullscreen on it clears the fullscreen state
C29_Witness ==
    /\ kind \in FullscreenKinds
    /\ Len(tiles(kind, wm)) >= 2
    /\ get_fullscreen_window(kind, wm) = get_master_window(kind, wm)
    /\ get_fullscreen_window(kind,
           toggle_fullscreen(kind, wm, unwrap(get_master_window(kind, wm))).wm) = None

\* C30: add_window(x) of an unmanaged window, whether or not a window is
\* fullscreen at the time, ends with get_fullscreen_window() = Some(x) if x
\* was added with fullscreen = true and None otherwise, and with x focused.
C30_AddWindowDemotesFullscreen ==
    kind \in FullscreenKinds
      => \A info \in Infos(kind) :
           ~is_managed(kind, wm, info.window)
             => \A r \in {add_window(kind, wm, info)} :
                  /\ r.res = "Ok"
                  /\ get_fullscreen_window(kind, r.wm)
                       = IF info.fullscreen THEN Some(info.window) ELSE None
                  /\ get_focused_window(kind, r.wm) = Some(info.window)

\* C30 witness: a window is fullscreen and add_window of an unmanaged window
\* that does not ask for fullscreen succeeds, leaving no window fullscreen
C30_Witness ==
    /\ kind \in FullscreenKinds
    /\ is_some(get_fullscreen_window(kind, wm))
    /\ \E info \in Infos(kind) :
          /\ ~info.fullscreen
          /\ ~is_managed(kind, wm, info.window)
          /\ add_window(kind, wm, info).res = "Ok"
          /\ get_fullscreen_window(kind, add_window(kind, wm, info).wm) = None

\* C31: while a window F is fullscreen, focus_window(Some(x)) with a managed
\* x other than F, focus_window(None), and cycle_focus with more than one
\* managed window each leave get_fullscreen_window() = None;
\* focus_window(Some(F)), and cycle_focus with F the only managed window,
\* leave F fullscreen and focused.
C31_FocusCancelsFullscreen ==
    kind \in FullscreenKinds
      => \A F \in Windows(kind) :
           get_fullscreen_window(kind, wm) = Some(F)
             => /\ \A x \in Windows(kind) :
                     (is_managed(kind, wm, x) /\ x # F)
                       => \A r \in {focus_window(kind, wm, Some(x))} :
                            r.res = "Ok" /\ get_fullscreen_window(kind, r.wm) = None
                /\ \A r \in {focus_window(kind, wm, None)} :
                     r.res = "Ok" /\ get_fullscreen_window(kind, r.wm) = None
                /\ \A dir \in PrevOrNext : \A r \in {cycle_focus(kind, wm, dir)} :
                     /\ r.res = "Ok"
                     /\ Len(get_windows(kind, wm)) > 1
                          => get_fullscreen_window(kind, r.wm) = None
                     /\ get_windows(kind, wm) = << F >>
                          => /\ get_fullscreen_window(kind, r.wm) = Some(F)
                             /\ get_focused_window(kind, r.wm) = Some(F)
                /\ \A r \in {focus_window(kind, wm, Some(F))} :
                     /\ r.res = "Ok"
                     /\ get_fullscreen_window(kind, r.wm) = Some(F)
                     /\ get_focused_window(kind, r.wm) = Some(F)

\* the TilingWM at the bottom of the window manager (of its workspace i)
innermost(k, self, i) ==
    CASE k = "TilingWM" -> self
      [] k = "GapsWM" -> self.tiling_wm
      [] k = "FloatingWM" -> self.tiling_wm
      [] k = "MinimiseWM" -> self.floating_wm.tiling_wm
      [] k = "FullWM" -> self.minimise_wm.floating_wm.tiling_wm
      [] k = "MultiWorkspaceWM" -> self.workspaces[i].minimise_wm.floating_wm.tiling_wm

\* the floating map (window -> geometry) of the window manager (of its workspace i)
float_map(k, self, i) ==
    CASE k = "FloatingWM" -> self.floats
      [] k = "MinimiseWM" -> self.floating_wm.floats
      [] k = "FullWM" -> self.minimise_wm.floating_wm.floats
      [] k = "MultiWorkspaceWM" -> self.workspaces[i].minimise_wm.floating_wm.floats

\* the workspace that the window manager looks w up in
owner(k, self, w) ==
    IF k = "MultiWorkspaceWM" THEN MultiWorkspaceWM_find_index(self, w) ELSE 0

\* the float/tile category recorded for the managed window w: Float or Tile
category(k, self, w) ==
    innermost(k, self, owner(k, self, w)).windows_info[w].float_or_tile

\* C32: toggle_floating(w) on a managed window w while some window (w or
\* another one) is fullscreen first toggles the fullscreen state off:
\* afterwards get_fullscreen_window() = None and the float/tile category of w
\* is flipped.
C32_ToggleFloatingCancelsFullscreen ==
    kind \in FullscreenKinds
      => \A w \in Windows(kind) :
           (is_managed(kind, wm, w) /\ is_some(get_fullscreen_window(kind, wm)))
             => \A r \in {toggle_floating(kind, wm, w)} :
                  /\ r.res = "Ok"
                  /\ get_fullscreen_window(kind, r.wm) = None
                  /\ category(kind, r.wm, w) # category(kind, wm, w)

recorded(k, self, w) == innermost(k, self, owner(k, self, w)).windows_info[w].geometry

\* the geometries that get_window_layout() shows for window w
shown(k, self, w) ==
    {get_window_layout(k, self).windows[i][2] :
       i \in {j \in DOMAIN get_window_layout(k, self).windows :
                get_window_layout(k, self).windows[j][1] = w}}

\* the results of the operations that record no geometry for window w: all
\* but add_window, remove_window and set_window_geometry of w
calls_recording_nothing(k, self, w) ==
    {add_window(k, self, info) : info \in {i \in Infos(k) : i.window # w}}
      \cup {remove_window(k, self, x) : x \in Windows(k) \ {w}}
      \cup {focus_window(k, self, o) : o \in {None} \cup {Some(x) : x \in Windows(k)}}
      \cup {cycle_focus(k, self, dir) : dir \in PrevOrNext}
      \cup {resize_screen(k, self, screen) : screen \in Screens}
      \cup {swap_with_master(k, self, x) : x \in Windows(k)}
      \cup {swap_windows(k, self, dir) : dir \in PrevOrNext}
      \cup {toggle_floating(k, self, x) : x \in Windows(k)}
      \cup {set_window_geometry(k, self, x, g) :
              x \in Windows(k) \ {w}, g \in Geometries(k)}
      \cup (IF k \in MinimiseKinds
            THEN {toggle_minimised(k, self, x) : x \in Windows(k)} ELSE {})
      \cup (IF k \in FullscreenKinds
            THEN {toggle_fullscreen(k, self, x) : x \in Windows(k)} ELSE {})

\* C34: the geometry that get_window_layout() shows for a floating window is
\* the geometry most recently recorded for it, which is the one passed to
\* add_window or the last set_window_geometry made while it was floating (no
\* other operation records a geometry); this holds also right after
\* toggle_floating floats a tile and after a floating window is unminimised;
\* set_window_geometry on a managed tiled window returns Ok and changes
\* nothing.
C34_FloatGeometryIsRecorded ==
    kind \in FloatKinds
      => /\ \A w \in Windows(kind) :
              (/\ is_floating(kind, wm, w) /\ is_managed(kind, wm, w)
               /\ kind \in FullscreenKinds => get_fullscreen_window(kind, wm) = None)
                => shown(kind, wm, w) = {recorded(kind, wm, w)}
         /\ \A info \in Infos(kind) : \A r \in {add_window(kind, wm, info)} :
              r.res = "Ok" => recorded(kind, r.wm, info.window) = info.geometry
         /\ \A w \in Windows(kind) : \A g \in Geometries(kind) :
              is_managed(kind, wm, w)
                => \A r \in {set_window_geometry(kind, wm, w, g)} :
                     /\ r.res = "Ok"
                     /\ category(kind, wm, w) = Float => recorded(kind, r.wm, w) = g
                     /\ category(kind, wm, w) = Tile => r.wm = wm
         /\ \A w \in Windows(kind) :
              is_managed(kind, wm, w)
                => \A r \in calls_recording_nothing(kind, wm, w) :
                     (r.res = "Ok" /\ is_managed(kind, r.wm, w))
                       => recorded(kind, r.wm, w) = recorded(kind, wm, w)

\* C35: in the multi-workspace layer, for a window w owned by a workspace
\* other than the current one, toggle_minimised(w) on a minimised w and
\* toggle_fullscreen(w) first make the workspace of w the current one and
\* then apply the toggle there, so that w ends focused; toggle_minimised(w)
\* on a visible w minimises it without changing the current workspace index.
C35_TogglesAcrossWorkspaces ==
    kind = "MultiWorkspaceWM"
      => \A w \in Windows(kind) :
         \A i \in managing_workspaces(wm, w) \ {MultiWorkspaceWM_get_current_workspace_index(wm)} :
           /\ \A r \in {MultiWorkspaceWM_toggle_fullscreen(wm, w)} :
                /\ r.res = "Ok"
                /\ MultiWorkspaceWM_get_current_workspace_index(r.wm) = i
                /\ MultiWorkspaceWM_get_fullscreen_window(r.wm) = Some(w)
                /\ MultiWorkspaceWM_get_focused_window(r.wm) = Some(w)
           /\ \A r \in {MultiWorkspaceWM_toggle_minimised(wm, w)} :
                /\ r.res = "Ok"
                /\ IF FullWM_is_minimised(wm.workspaces[i], w)
                   THEN /\ MultiWorkspaceWM_get_current_workspace_index(r.wm) = i
                        /\ ~FullWM_is_minimised(r.wm.workspaces[i], w)
                        /\ MultiWorkspaceWM_get_focused_window(r.wm) = Some(w)
                   ELSE /\ MultiWorkspaceWM_get_current_workspace_index(r.wm)
                             = MultiWorkspaceWM_get_current_workspace_index(wm)
                        /\ FullWM_is_minimised(r.wm.workspaces[i], w)

\* the workspaces whose state differs between the MultiWorkspaceWM before and after
changed_workspaces(before, after) ==
    {i \in 0 .. MAX_WORKSPACE_INDEX : after.workspaces[i] # before.workspaces[i]}

\* C36: in the multi-workspace layer every operation other than
\* resize_screen and switch_workspace changes the state of at most one
\* workspace: the current one for add_window, cycle_focus, swap_with_master,
\* swap_windows and focus_window(None), the owning one for operations that
\* name a managed window; every other workspace keeps its window list, tile
\* order, floating map, minimised list, focus and fullscreen window.
C36_OneWorkspaceChanges ==
    kind = "MultiWorkspaceWM"
      => /\ \A r \in {add_window(kind, wm, info) : info \in Infos(kind)}
                       \cup {cycle_focus(kind, wm, dir) : dir \in PrevOrNext}
                       \cup {swap_with_master(kind, wm, w) : w \in Windows(kind)}
                       \cup {swap_windows(kind, wm, dir) : dir \in PrevOrNext}
                       \cup {focus_window(kind, wm, None)} :
              changed_workspaces(wm, r.wm) \subseteq {wm.index}
         /\ \A w \in Windows(kind) :
            \A r \in {remove_window(kind, wm, w), focus_window(kind, wm, Some(w)),
                      toggle_floating(kind, wm, w), toggle_minimised(kind, wm, w),
                      toggle_fullscreen(kind, wm, w)}
                       \cup {set_window_geometry(kind, wm, w, g) : g \in Geometries(kind)} :
              /\ changed_workspaces(wm, r.wm) \subseteq managing_workspaces(wm, w)
              /\ Cardinality(changed_workspaces(wm, r.wm)) <= 1

\* the number of entries that get_window_layout() has for window w
entries(k, self, w) ==
    Cardinality({i \in DOMAIN get_window_layout(k, self).windows :
                   get_window_layout(k, self).windows[i][1] = w})

\* C37: in every reachable state of the float, minimise and fullscreen
\* layers with no fullscreen window, get_window_layout().windows contains
\* each managed non-minimised window exactly once and no other window: no
\* duplicates, no removed and no minimised windows, also after a window id
\* was removed and added again.
C37_LayoutListsVisibleWindowsOnce ==
    (kind \in {"FloatingWM", "MinimiseWM", "FullWM"}
       /\ (kind \in FullscreenKinds => is_none(get_fullscreen_window(kind, wm))))
      => \A w \in Windows(kind) :
           entries(kind, wm, w)
             = IF is_managed(kind, wm, w)
                  /\ ~(kind \in MinimiseKinds /\ is_minimised(kind, wm, w))
               THEN 1 ELSE 0

\* the minimised list of workspace i of the window manager
minimised_list(k, self, i) ==
    CASE k = "MinimiseWM" -> self.minimised
      [] k = "FullWM" -> self.minimise_wm.minimised
      [] k = "MultiWorkspaceWM" -> self.workspaces[i].minimise_wm.minimised

\* the managed windows of workspace i with category c that are not minimised
visible_of(k, self, i, c) ==
    {w \in DOMAIN innermost(k, self, i).windows_info :
       /\ contains(innermost(k, self, i).windows, w)
       /\ innermost(k, self, i).windows_info[w].float_or_tile = c
       /\ ~contains(minimised_list(k, self, i), w)}

\* C38: in every reachable state of the composed window manager every managed
\* window is in exactly one of the tile stack, the floating map and the
\* minimised list: the tile stack holds, without duplicates, exactly the
\* managed windows whose recorded category is Tile and that are not
\* minimised, and the floating map exactly those whose category is Float and
\* that are not minimised.
C38_TilesFloatsMinimisedPartition ==
    kind \in {"FullWM", "MultiWorkspaceWM"}
      => \A i \in (IF kind = "MultiWorkspaceWM" THEN 0 .. MAX_WORKSPACE_INDEX ELSE {0}) :
           /\ \A a, b \in DOMAIN innermost(kind, wm, i).tiles :
                innermost(kind, wm, i).tiles[a] = innermost(kind, wm, i).tiles[b] => a = b
           /\ {innermost(kind, wm, i).tiles[a] : a \in DOMAIN innermost(kind, wm, i).tiles}
                = visible_of(kind, wm, i, Tile)
           /\ DOMAIN float_map(kind, wm, i) = visible_of(kind, wm, i, Float)
           /\ \A w \in Windows(kind) :
                contains(innermost(kind, wm, i).windows, w)
                  => Cardinality({c \in {"tiles", "floats", "minimised"} :
                        \/ c = "tiles" /\ contains(innermost(kind, wm, i).tiles, w)
                        \/ c = "floats" /\ w \in DOMAIN float_map(kind, wm, i)
                        \/ c = "minimised" /\ contains(minimised_list(kind, wm, i), w)}) = 1

\* C39: in the multi-workspace layer, after any sequence of its public
\* operations, no workspace other than the current one has a fullscreen
\* window: switch_workspace, and every operation that switches workspace
\* implicitly, un-fullscreens the workspace being left.
C39_OnlyCurrentWorkspaceFullscreen ==
    kind = "MultiWorkspaceWM"
      => \A i \in 0 .. MAX_WORKSPACE_INDEX :
           i # wm.index => is_none(FullWM_get_fullscreen_window(wm.workspaces[i]))

\* the current workspace has a fullscreen window and focusing a window of
\* another workspace leaves it, without its fullscreen window
C39_Witness ==
    /\ kind = "MultiWorkspaceWM"
    /\ is_some(get_fullscreen_window(kind, wm))
    /\ \E w \in Windows(kind) :
       \E r \in {focus_window(kind, wm, Some(w))} :
          /\ r.res = "Ok"
          /\ r.wm.index # wm.index
          /\ is_none(FullWM_get_fullscreen_window(r.wm.workspaces[wm.index]))

\* the focus order, tile order, floating map and minimised list of the window
\* manager (of its current workspace)
collections(k, self) ==
    [windows |-> get_windows(k, self),
     tiles |-> tiles(k, self),
     floats |-> IF k \in FloatKinds THEN float_map(k, self, current_index(k, self)) ELSE << >>,
     minimised |-> IF k \in MinimiseKinds THEN get_minimised_windows(k, self) ELSE << >>]

\* C40: in every layer swap_windows(dir) never changes get_focused_window();
\* when no window is focused, when fewer than two tiles exist, or when the
\* focused window is floating, it returns normally and changes nothing: tile
\* order, focus order, floating map and minimised list are unchanged.
C40_SwapWindowsKeepsFocus ==
    \A dir \in PrevOrNext :
    \A r \in {swap_windows(kind, wm, dir)} :
       /\ r.res = "Ok" => get_focused_window(kind, r.wm) = get_focused_window(kind, wm)
       /\ (\/ is_none(get_focused_window(kind, wm))
           \/ Len(tiles(kind, wm)) < 2
           \/ (kind \in FloatKinds
                 /\ is_some(get_focused_window(kind, wm))
                 /\ is_floating(kind, wm, unwrap(get_focused_window(kind, wm)))))
            => /\ r.res = "Ok"
               /\ collections(kind, r.wm) = collections(kind, wm)

====
